---- MODULE Spec2Model ----
(***************************************************************************)
(* CADDKit: a verification model of the rule-based compound filter         *)
(* (caddkit/filters.py) and of the ChEMBL data-request pipeline            *)
(* (caddkit/pipelines/chembl_data_request.py, caddkit/api/chembl.py).      *)
(* Further: the potency conversion (caddkit/utils.py), the fingerprint     *)
(* functions with their streaming export (caddkit/fingerprints.py) and the *)
(* retried metadata fetch (caddkit/api/pdb.py, caddkit/pdb.py).            *)
(*                                                                         *)
(* Conventions.  A table (pandas DataFrame) is a record                    *)
(* [columns |-> set of column names, rows |-> sequence of rows]; a row is  *)
(* a function from column names to cells.  In the pipeline tables a cell   *)
(* is an option: <<>> is a missing cell (None / NaN) and <<v>> a present   *)
(* one.  Real numbers are scaled integers: molecular weights and logP are  *)
(* in hundredths.  Strings are TLA+ strings; a string that the code parses *)
(* character by character (a raw standard_value) is a tuple of one-letter  *)
(* strings.                                                                *)
(***************************************************************************)
EXTENDS Integers, Sequences, FiniteSets, TLC

VARIABLES
    \* ---- CompoundFilter: the object's fields
    filters,            \* self.filters: sequence of predicate callables
    filter_names,       \* self.filter_names: sequence of names
    \* ---- CompoundFilter.process: arguments, locals, position, outcome
    df,                 \* the table passed in
    smiles_column,      \* the column name passed in
    fpc,                \* "idle" | "row" | "filter" | "rowend" | "done"
    row_i,              \* position of the outer loop (df.iterrows)
    filter_j,           \* position of the inner loop (zip(filters, names))
    molecule_data,      \* dict of the row being processed
    violated,           \* flag of the row being processed
    reasons,            \* reasons of the row being processed
    results,            \* list of molecule_data dicts
    violation_reasons,  \* list of joined reason strings
    evaluated,          \* every call filter_func(smiles) made: <<row, filter>>
    filtered_df,        \* first returned table
    violated_df,        \* second returned table
    process_raised,     \* "" or the exception process raised
    add_raised,         \* "" or the exception the last add_filter call raised
    \* ---- The ChEMBL registry (what the web client answers)
    reg_targets,        \* target records of the pipeline's UniProt ID
    reg_activities,     \* activity records of the target
    reg_molecules,      \* molecule records
    \* ---- DataRequestPipeline: the object's field
    uniprot_id,         \* self.uniprot_id
    \* ---- DataRequestPipeline.run: locals, position, outcome
    ppc,                \* "idle" | "stage1" .. "stage7" | "except" | "done"
    chembl_id,          \* result of step 1: None or Some(id)
    bioactivities_df,   \* result of step 2, then of step 3
    compounds_df,       \* result of step 4, then of step 5
    merged_df,          \* result of step 6
    run_result,         \* the table run returned
    run_raised,         \* "" or the exception run let through to its caller
    failed_stage,       \* 0, or the step whose method raised
    calls,              \* the step methods run called, in order
    requested_ids,      \* the list run passed to query_compound_data
    run_returns,        \* the tables earlier run calls returned to a caller who keeps them
    \* ---- Calls of the pure functions (utils.py, fingerprints.py)
    conv_calls,         \* calls of ic50_to_pic50: arguments and outcome
    fp_calls,           \* calls of the fingerprint functions
    rule_molecule,      \* the RDKit molecule a caller of the rule functions holds
    rule_calls,         \* calls of the rule functions on it: function and outcome
    id_calls,           \* calls of get_chembl_id_by_uniprot: arguments and result
    step_table,         \* the table a caller of the step methods holds
    step_calls,         \* calls of step methods on it: method, table before, outcome
    \* ---- The retried metadata fetch (caddkit/api/pdb.py, caddkit/pdb.py)
    pdb_fn,             \* the decorated function called
    rpc,                \* "idle" | "attempt" | "done"
    attempt_log,        \* what pypdb.describe_pdb did in each attempt so far
    fetch_result,       \* None or Some(metadata returned)
    fetch_raised,       \* "" or the exception the call raised
    \* ---- caddkit/fingerprints.py: the module and the file system
    module_globals,     \* the names bound in the module's namespace
    sink,               \* the file at output_csv_path: None or Some(lines)
    \* ---- generate_fingerprint_dfs_to_csv: arguments, locals, outcome
    X_df,               \* the table passed in
    fingerprint_fn,     \* the fingerprint function passed in
    smiles_col,         \* the column name passed in
    chunk_size,         \* the chunk size passed in
    xpc,                \* "idle" | "prepare" | "enter" | "loop" | "done"
    start_idx,          \* position of the loop over range(0, total_rows, chunk_size)
    export_raised,      \* "" or the exception the call raised
    sink_before,        \* the file as it was when the call began
    removals,           \* how often the call removed the file
    header_writes,      \* how often the call wrote the header row
    commits             \* the to_csv calls made: rows of each chunk written

fvars == <<filters, filter_names, df, smiles_column, fpc, row_i, filter_j,
           molecule_data, violated, reasons, results, violation_reasons,
           evaluated, filtered_df, violated_df, process_raised, add_raised>>

pvars == <<reg_targets, reg_activities, reg_molecules, uniprot_id, ppc,
           chembl_id, bioactivities_df, compounds_df, merged_df, run_result,
           run_raised, failed_stage, calls, requested_ids, run_returns>>

cvars == <<conv_calls, fp_calls, rule_molecule, rule_calls, id_calls,
           step_table, step_calls, pdb_fn, rpc, attempt_log, fetch_result,
           fetch_raised>>

xvars == <<module_globals, sink, X_df, fingerprint_fn, smiles_col, chunk_size,
           xpc, start_idx, export_raised, sink_before, removals, header_writes,
           commits>>

vars == <<fvars, pvars, cvars, xvars>>

\* ------------------------------------------------------------------------
\* Bounds of the model
\* ------------------------------------------------------------------------
MaxFilters == 2
MaxRows == 2
MaxActivities == 2
MaxMolecules == 2
MaxRuns == 2

\* ------------------------------------------------------------------------
\* Generic helpers (Python / pandas primitives)
\* ------------------------------------------------------------------------
None == <<>>
Some(x) == <<x>>

Range(s) == {s[k] : k \in 1..Len(s)}

RECURSIVE SeqsUpTo(_, _)
SeqsUpTo(S, n) ==
    IF n = 0 THEN {<<>>}
    ELSE LET shorter == SeqsUpTo(S, n - 1)
         IN shorter \cup {Append(s, x) : s \in {t \in shorter : Len(t) = n - 1}, x \in S}

\* sep.join(strs)
RECURSIVE Join(_, _)
Join(sep, strs) ==
    IF strs = <<>> THEN ""
    ELSE IF Len(strs) = 1 THEN strs[1]
    ELSE strs[1] \o sep \o Join(sep, Tail(strs))

\* dict.update: keys of d overwrite keys of a
DictUpdate(a, d) ==
    [k \in DOMAIN a \cup DOMAIN d |-> IF k \in DOMAIN d THEN d[k] ELSE a[k]]

\* sum(conditions) of a list of booleans
RECURSIVE CountTrue(_)
CountTrue(conditions) ==
    IF conditions = <<>> THEN 0
    ELSE (IF Head(conditions) THEN 1 ELSE 0) + CountTrue(Tail(conditions))

\* df[columns] of one row
Project(row, columns) == [c \in columns |-> row[c]]

\* ------------------------------------------------------------------------
\* RDKit: the descriptors of the structure strings of the model.
\* Weights (ExactMolWt) and logP (MolLogP) in hundredths.
\* ------------------------------------------------------------------------
Ethanol == "CCO"
BenzoicAcid == "C1=CC=C(C=C1)C(=O)O"
Eicosane == "CCCCCCCCCCCCCCCCCCCC"
Unparseable == "invalid_smiles"

RdkitDescriptors ==
    [s \in {Ethanol, BenzoicAcid, Eicosane} |->
        CASE s = Ethanol ->
               [ExactMolWt |-> 4604, NumHAcceptors |-> 1, NumHDonors |-> 1,
                MolLogP |-> 0, HeavyAtomCount |-> 3, NumRotatableBonds |-> 0]
          [] s = BenzoicAcid ->
               [ExactMolWt |-> 12204, NumHAcceptors |-> 1, NumHDonors |-> 1,
                MolLogP |-> 138, HeavyAtomCount |-> 9, NumRotatableBonds |-> 1]
          [] s = Eicosane ->
               [ExactMolWt |-> 28233, NumHAcceptors |-> 0, NumHDonors |-> 0,
                MolLogP |-> 805, HeavyAtomCount |-> 20, NumRotatableBonds |-> 17]]

\* Chem.MolFromSmiles: None for a string that does not parse
MolFromSmiles(smiles) ==
    IF smiles \in DOMAIN RdkitDescriptors THEN Some(RdkitDescriptors[smiles]) ELSE None

\* Outcome of a call: an exception with its message, or a returned Series
Raise(msg) == [raised |-> TRUE, msg |-> msg]
Return(series) == [raised |-> FALSE, result |-> series]

\* Mutant: all four conditions are required
ro5_properties_AllFour(molecule) ==
    LET molecular_weight == molecule.ExactMolWt
        n_hba == molecule.NumHAcceptors
        n_hbd == molecule.NumHDonors
        logp == molecule.MolLogP
        conditions == <<molecular_weight <= 50000, n_hba <= 10,
                        n_hbd <= 5, logp <= 500>>
        ro5_fulfilled == CountTrue(conditions) >= 4
    IN [molecular_weight |-> molecular_weight, n_hba |-> n_hba,
        n_hbd |-> n_hbd, logp |-> logp, fulfilled |-> ro5_fulfilled]

\* calculate_ro5_properties from the parsed molecule on: the descriptors,
\* the conditions and the Series
ro5_properties(molecule) ==
    LET molecular_weight == molecule.ExactMolWt
        n_hba == molecule.NumHAcceptors
        n_hbd == molecule.NumHDonors
        logp == molecule.MolLogP
        conditions == <<molecular_weight <= 50000, n_hba <= 10,
                        n_hbd <= 5, logp <= 500>>
        ro5_fulfilled == CountTrue(conditions) >= 3
    IN [molecular_weight |-> molecular_weight, n_hba |-> n_hba,
        n_hbd |-> n_hbd, logp |-> logp, fulfilled |-> ro5_fulfilled]

calculate_ro5_properties(smiles) ==
    LET molecule == MolFromSmiles(smiles) IN
    IF molecule = None
    THEN Raise("Invalid SMILES string: " \o smiles)
    ELSE Return(ro5_properties(molecule[1]))

\* Mutant: the upper logP bound is inclusive
soft_reos_properties_LogpInclusive(molecule) ==
    LET molecular_weight == molecule.ExactMolWt
        n_heavy_atoms == molecule.HeavyAtomCount
        n_rotatable_bonds == molecule.NumRotatableBonds
        n_hba == molecule.NumHAcceptors
        n_hbd == molecule.NumHDonors
        logp == molecule.MolLogP
        conditions == <<10000 <= molecular_weight /\ molecular_weight <= 70000,
                        5 <= n_heavy_atoms /\ n_heavy_atoms <= 50,
                        0 <= n_rotatable_bonds /\ n_rotatable_bonds <= 12,
                        0 <= n_hbd /\ n_hbd <= 5,
                        0 <= n_hba /\ n_hba <= 10,
                        -500 < logp /\ logp <= 750>>
        reos_fulfilled == \A k \in 1..Len(conditions) : conditions[k]
    IN [molecular_weight |-> molecular_weight,
        heavy_atoms |-> n_heavy_atoms,
        rotatable_bonds |-> n_rotatable_bonds,
        n_hba |-> n_hba, n_hbd |-> n_hbd, logp |-> logp,
        fulfilled |-> reos_fulfilled]

\* calculate_soft_reos_properties from the parsed molecule on
soft_reos_properties(molecule) ==
    LET molecular_weight == molecule.ExactMolWt
        n_heavy_atoms == molecule.HeavyAtomCount
        n_rotatable_bonds == molecule.NumRotatableBonds
        n_hba == molecule.NumHAcceptors
        n_hbd == molecule.NumHDonors
        logp == molecule.MolLogP
        conditions == <<10000 <= molecular_weight /\ molecular_weight <= 70000,
                        5 <= n_heavy_atoms /\ n_heavy_atoms <= 50,
                        0 <= n_rotatable_bonds /\ n_rotatable_bonds <= 12,
                        0 <= n_hbd /\ n_hbd <= 5,
                        0 <= n_hba /\ n_hba <= 10,
                        -500 < logp /\ logp < 750>>
        reos_fulfilled == \A k \in 1..Len(conditions) : conditions[k]
    IN [molecular_weight |-> molecular_weight,
        heavy_atoms |-> n_heavy_atoms,
        rotatable_bonds |-> n_rotatable_bonds,
        n_hba |-> n_hba, n_hbd |-> n_hbd, logp |-> logp,
        fulfilled |-> reos_fulfilled]

calculate_soft_reos_properties(smiles) ==
    LET molecule == MolFromSmiles(smiles) IN
    IF molecule = None
    THEN Raise("Invalid SMILES string: " \o smiles)
    ELSE Return(soft_reos_properties(molecule[1]))

\* A caller-supplied predicate (any callable is accepted by add_filter):
\* lambda s: pd.Series({"has_oxygen": "O" in s, "fulfilled": "O" in s}).
\* It inspects the text only and never raises.
contains_oxygen(smiles) ==
    LET has == smiles \in {Ethanol, BenzoicAcid}
    IN Return([has_oxygen |-> has, fulfilled |-> has])

\* filter_func(smiles) for the callables of the model
CallFilter(filter_func, smiles) ==
    CASE filter_func = "calculate_ro5_properties" -> calculate_ro5_properties(smiles)
      [] filter_func = "calculate_soft_reos_properties" -> calculate_soft_reos_properties(smiles)
      [] filter_func = "contains_oxygen" -> contains_oxygen(smiles)

BuiltinPredicates == {"calculate_ro5_properties", "calculate_soft_reos_properties"}

\* The (filter_func, name) pairs add_filter is called with.  An argument is
\* Some(v), or None for the Python object None, which is neither callable
\* nor a string.  Two of the callables are given under the same name.
FilterChoices ==
    { <<Some("calculate_ro5_properties"), Some("Lipinski's Rule of Five")>>,
      <<Some("calculate_soft_reos_properties"), Some("REOS")>>,
      <<Some("contains_oxygen"), Some("REOS")>>,
      <<Some("contains_oxygen"), Some("")>>,
      <<None, Some("REOS")>>,
      <<Some("contains_oxygen"), None>>,
      <<None, None>> }

\* ------------------------------------------------------------------------
\* Input tables of process: a SMILES column, alone or beside a
\* molecular_weight column as delivered by a compound catalogue
\* (average mass, which differs from RDKit's exact mass).
\* ------------------------------------------------------------------------
CatalogueWeight(smiles) ==
    CASE smiles = Ethanol -> 4607
      [] smiles = BenzoicAcid -> 12212
      [] smiles = Eicosane -> 28255
      [] OTHER -> 1802

Structures == {Ethanol, BenzoicAcid, Eicosane, Unparseable}

InputTables ==
    {[columns |-> {"smiles"}, rows |-> r] :
        r \in SeqsUpTo({[smiles |-> s] : s \in Structures}, MaxRows)}
    \cup
    {[columns |-> {"smiles", "molecular_weight"}, rows |-> r] :
        r \in SeqsUpTo({[smiles |-> s, molecular_weight |-> CatalogueWeight(s)] :
                            s \in Structures}, MaxRows)}

EmptyTable == [columns |-> {}, rows |-> <<>>]

\* ------------------------------------------------------------------------
\* CompoundFilter
\* ------------------------------------------------------------------------
ProcessLocalsReset ==
    /\ df' = EmptyTable
    /\ smiles_column' = ""
    /\ row_i' = 0
    /\ filter_j' = 0
    /\ molecule_data' = <<>>
    /\ violated' = FALSE
    /\ reasons' = <<>>
    /\ results' = <<>>
    /\ violation_reasons' = <<>>
    /\ evaluated' = <<>>
    /\ filtered_df' = <<>>
    /\ violated_df' = <<>>
    /\ process_raised' = ""

\* CompoundFilter.__init__
FilterConstructed ==
    /\ filters = <<>>
    /\ filter_names = <<>>
    /\ fpc = "idle"
    /\ df = EmptyTable
    /\ smiles_column = ""
    /\ row_i = 0
    /\ filter_j = 0
    /\ molecule_data = <<>>
    /\ violated = FALSE
    /\ reasons = <<>>
    /\ results = <<>>
    /\ violation_reasons = <<>>
    /\ evaluated = <<>>
    /\ filtered_df = <<>>
    /\ violated_df = <<>>
    /\ process_raised = ""
    /\ add_raised = ""

\* Mutant: a predicate registered under a name already in the registry takes
\* the place of the one registered before
AddFilterUniqueNames(filter_func, name) ==
    /\ fpc = "idle"
    /\ IF filter_func = None
       THEN /\ add_raised' = "ValueError"
            /\ UNCHANGED <<filters, filter_names>>
       ELSE IF name = None
       THEN /\ add_raised' = "TypeError"
            /\ UNCHANGED <<filters, filter_names>>
       ELSE /\ Len(filters) < MaxFilters
            /\ add_raised' = ""
            /\ IF \E k \in 1..Len(filter_names) : filter_names[k] = name[1]
               THEN /\ filters' = [k \in 1..Len(filters) |->
                                      IF filter_names[k] = name[1]
                                      THEN filter_func[1] ELSE filters[k]]
                    /\ UNCHANGED filter_names
               ELSE /\ filters' = Append(filters, filter_func[1])
                    /\ filter_names' = Append(filter_names, name[1])
    /\ UNCHANGED <<df, smiles_column, fpc, row_i, filter_j, molecule_data,
                   violated, reasons, results, violation_reasons, evaluated,
                   filtered_df, violated_df, process_raised>>
    /\ UNCHANGED <<pvars, cvars, xvars>>

\* CompoundFilter.add_filter(filter_func, name): the two checks, then the
\* two appends
AddFilter(filter_func, name) ==
    /\ fpc = "idle"
    /\ IF filter_func = None
       THEN /\ add_raised' = "ValueError"
            /\ UNCHANGED <<filters, filter_names>>
       ELSE IF name = None
       THEN /\ add_raised' = "TypeError"
            /\ UNCHANGED <<filters, filter_names>>
       ELSE /\ Len(filters) < MaxFilters
            /\ add_raised' = ""
            /\ filters' = Append(filters, filter_func[1])
            /\ filter_names' = Append(filter_names, name[1])
    /\ UNCHANGED <<df, smiles_column, fpc, row_i, filter_j, molecule_data,
                   violated, reasons, results, violation_reasons, evaluated,
                   filtered_df, violated_df, process_raised>>
    /\ UNCHANGED <<pvars, cvars, xvars>>

\* process: entry, the check of smiles_column and the initial locals
ProcessStart(table, column) ==
    /\ fpc = "idle"
    /\ df' = table
    /\ smiles_column' = column
    /\ results' = <<>>
    /\ violation_reasons' = <<>>
    /\ evaluated' = <<>>
    /\ filtered_df' = <<>>
    /\ violated_df' = <<>>
    /\ molecule_data' = <<>>
    /\ violated' = FALSE
    /\ reasons' = <<>>
    /\ filter_j' = 0
    /\ IF column \notin table.columns
       THEN /\ process_raised' = "KeyError"
            /\ fpc' = "done"
            /\ row_i' = 0
       ELSE /\ process_raised' = ""
            /\ fpc' = "row"
            /\ row_i' = 1
    /\ add_raised' = ""
    /\ UNCHANGED <<filters, filter_names>>
    /\ UNCHANGED <<pvars, cvars, xvars>>

\* for _, row in df.iterrows(): the head of one iteration
RowStart ==
    /\ fpc = "row"
    /\ row_i <= Len(df.rows)
    /\ molecule_data' = df.rows[row_i]
    /\ violated' = FALSE
    /\ reasons' = <<>>
    /\ filter_j' = 1
    /\ fpc' = "filter"
    /\ UNCHANGED <<filters, filter_names, df, smiles_column, row_i, results,
                   violation_reasons, evaluated, filtered_df, violated_df,
                   process_raised>>
    /\ UNCHANGED <<add_raised, pvars, cvars, xvars>>

\* The reason recorded for a predicate that raised
RaisedReason(name, msg) == name \o ": " \o msg

\* Mutant: the except branch without its break (the loop goes on)
OnRaiseNoBreak(name, msg, j, flag, rsn) ==
    [violated |-> TRUE, reasons |-> Append(rsn, RaisedReason(name, msg)),
     pc |-> "filter", j |-> j + 1]

\* Mutant: the except branch records the reason but leaves the flag as it was
OnRaiseFlagKept(name, msg, j, flag, rsn) ==
    [violated |-> flag, reasons |-> Append(rsn, RaisedReason(name, msg)),
     pc |-> "rowend", j |-> j]

\* except Exception as e: the flag, the reasons and where the loop goes (break)
OnRaise(name, msg, j, flag, rsn) ==
    [violated |-> TRUE, reasons |-> Append(rsn, RaisedReason(name, msg)),
     pc |-> "rowend", j |-> j]

\* Mutant: an unfulfilled predicate ends the loop as an exception does
OnResultShortCircuit(name, fulfilled, j, flag, rsn) ==
    [violated |-> IF ~fulfilled THEN TRUE ELSE flag,
     reasons |-> IF ~fulfilled THEN Append(rsn, name) ELSE rsn,
     pc |-> IF ~fulfilled THEN "rowend" ELSE "filter",
     j |-> IF ~fulfilled THEN j ELSE j + 1]

\* The try body after the call: the flag, the reasons, and the next iteration
OnResult(name, fulfilled, j, flag, rsn) ==
    [violated |-> IF ~fulfilled THEN TRUE ELSE flag,
     reasons |-> IF ~fulfilled THEN Append(rsn, name) ELSE rsn,
     pc |-> "filter", j |-> j + 1]

\* for filter_func, name in zip(...): one iteration, try and except
FilterStep ==
    /\ fpc = "filter"
    /\ filter_j <= Len(filters)
    /\ LET smiles == df.rows[row_i][smiles_column]
           name == filter_names[filter_j]
           filter_result == CallFilter(filters[filter_j], smiles)
           after == IF filter_result.raised
                    THEN OnRaise(name, filter_result.msg, filter_j, violated, reasons)
                    ELSE OnResult(name, filter_result.result.fulfilled, filter_j,
                                  violated, reasons)
       IN /\ evaluated' = Append(evaluated, <<row_i, filter_j>>)
          /\ molecule_data' = IF filter_result.raised THEN molecule_data
                              ELSE DictUpdate(molecule_data, filter_result.result)
          /\ violated' = after.violated
          /\ reasons' = after.reasons
          /\ filter_j' = after.j
          /\ fpc' = after.pc
    /\ UNCHANGED <<filters, filter_names, df, smiles_column, row_i, results,
                   violation_reasons, filtered_df, violated_df, process_raised>>
    /\ UNCHANGED <<add_raised, pvars, cvars, xvars>>

\* The tail of one iteration of the outer loop
RowEnd ==
    /\ \/ fpc = "rowend"
       \/ fpc = "filter" /\ filter_j > Len(filters)
    /\ results' = Append(results, DictUpdate(molecule_data, [violated |-> violated]))
    /\ violation_reasons' = Append(violation_reasons, Join(", ", reasons))
    /\ row_i' = row_i + 1
    /\ fpc' = "row"
    /\ UNCHANGED <<filters, filter_names, df, smiles_column, filter_j,
                   molecule_data, violated, reasons, evaluated, filtered_df,
                   violated_df, process_raised>>
    /\ UNCHANGED <<add_raised, pvars, cvars, xvars>>

\* result_df = pd.DataFrame(results); result_df["violation_reason"] = ...
\* Each row keeps its position as its index label.
ResultDf(res, vreasons) ==
    [columns |-> UNION {DOMAIN res[k] : k \in 1..Len(res)} \cup {"violation_reason"},
     rows |-> [k \in 1..Len(res) |->
                 DictUpdate(res[k], [violation_reason |-> vreasons[k], index |-> k])]]

\* result_df[result_df["violated"] == flag][columns], index kept
SelectRows(result_df, flag, columns) ==
    LET Pick(s) == SelectSeq(s, LAMBDA r : r.violated = flag)
    IN [k \in 1..Len(Pick(result_df.rows)) |->
           Project(Pick(result_df.rows)[k], columns \cup {"index"})]

\* The code after the loop: build, split, restrict to the original columns
ProcessFinish ==
    /\ fpc = "row"
    /\ row_i > Len(df.rows)
    /\ LET result_df == ResultDf(results, violation_reasons)
           original_columns == df.columns
       IN IF "violated" \notin result_df.columns
             \/ ~(original_columns \subseteq result_df.columns)
          THEN /\ process_raised' = "KeyError"
               /\ UNCHANGED <<filtered_df, violated_df>>
          ELSE /\ process_raised' = ""
               /\ filtered_df' = SelectRows(result_df, FALSE, original_columns)
               /\ violated_df' = SelectRows(result_df, TRUE,
                                            original_columns \cup {"violation_reason"})
    /\ fpc' = "done"
    /\ UNCHANGED <<filters, filter_names, df, smiles_column, row_i, filter_j,
                   molecule_data, violated, reasons, results, violation_reasons,
                   evaluated>>
    /\ UNCHANGED <<add_raised, pvars, cvars, xvars>>

\* The caller takes the returned tables (or the exception); the call is over
ProcessReturn ==
    /\ fpc = "done"
    /\ fpc' = "idle"
    /\ ProcessLocalsReset
    /\ UNCHANGED <<filters, filter_names>>
    /\ UNCHANGED <<add_raised, pvars, cvars, xvars>>

\* ------------------------------------------------------------------------
\* pandas: the table operations the pipeline uses
\* ------------------------------------------------------------------------
\* pd.DataFrame.from_records / from_dict: no records give a table without columns
FromRecords(columns, rows) ==
    IF rows = <<>> THEN EmptyTable ELSE [columns |-> columns, rows |-> rows]

\* df.drop(columns, axis=1): KeyError for a column the table does not have
DropColumns(table, columns) ==
    IF ~(columns \subseteq table.columns)
    THEN Raise("KeyError")
    ELSE Return([columns |-> table.columns \ columns,
                 rows |-> [k \in 1..Len(table.rows) |->
                             Project(table.rows[k], table.columns \ columns)]])

\* float(text) of a string of the model: decimal digits, or not a number
Digits == {"0", "1", "2", "3", "4", "5", "6", "7", "8", "9"}

DigitValue(c) ==
    CASE c = "0" -> 0 [] c = "1" -> 1 [] c = "2" -> 2 [] c = "3" -> 3
      [] c = "4" -> 4 [] c = "5" -> 5 [] c = "6" -> 6 [] c = "7" -> 7
      [] c = "8" -> 8 [] c = "9" -> 9

RECURSIVE DecimalValue(_)
DecimalValue(text) ==
    IF text = <<>> THEN 0
    ELSE 10 * DecimalValue(SubSeq(text, 1, Len(text) - 1)) + DigitValue(text[Len(text)])

IsNumeric(text) == text /= <<>> /\ \A k \in 1..Len(text) : text[k] \in Digits

\* df.astype({column: "float64"}): None becomes NaN, a numeric string its
\* value; ValueError for any other string, KeyError for a missing column
AsTypeFloat(table, column) ==
    IF column \notin table.columns
    THEN Raise("KeyError")
    ELSE IF \E k \in 1..Len(table.rows) :
                /\ table.rows[k][column] /= None
                /\ ~IsNumeric(table.rows[k][column][1])
    THEN Raise("ValueError")
    ELSE Return([columns |-> table.columns,
                 rows |-> [k \in 1..Len(table.rows) |->
                     [c \in table.columns |->
                         IF c = column /\ table.rows[k][c] /= None
                         THEN Some(DecimalValue(table.rows[k][c][1]))
                         ELSE table.rows[k][c]]]])

\* df.dropna(axis=0): the rows without a missing cell
DropNa(rows) == SelectSeq(rows, LAMBDA r : \A c \in DOMAIN r : r[c] /= None)

\* Mutant: drop_duplicates keeping the last occurrence of each key
RECURSIVE DropDuplicatesKeepLast(_, _)
DropDuplicatesKeepLast(rows, key) ==
    IF rows = <<>> THEN <<>>
    ELSE IF \E k \in 2..Len(rows) : rows[k][key] = Head(rows)[key]
         THEN DropDuplicatesKeepLast(Tail(rows), key)
         ELSE <<Head(rows)>> \o DropDuplicatesKeepLast(Tail(rows), key)

\* df.drop_duplicates(key): the first row of each key, in order
RECURSIVE DropDuplicates(_, _)
DropDuplicates(rows, key) ==
    IF rows = <<>> THEN <<>>
    ELSE LET front == SubSeq(rows, 1, Len(rows) - 1)
             last == rows[Len(rows)]
         IN IF \E k \in 1..Len(front) : front[k][key] = last[key]
            THEN DropDuplicates(front, key)
            ELSE Append(DropDuplicates(front, key), last)

\* df.rename(columns={old: new}) of one row
RenameRow(row, old, new) ==
    [c \in (DOMAIN row \ {old}) \cup {new} |-> IF c = new THEN row[old] ELSE row[c]]

\* Mutant: sort_values in ascending order
RECURSIVE SortAscending(_, _)
SortAscending(rows, column) ==
    IF rows = <<>> THEN <<>>
    ELSE LET front == SortAscending(SubSeq(rows, 1, Len(rows) - 1), column)
             last == rows[Len(rows)]
             before == SelectSeq(front, LAMBDA r : r[column][1] <= last[column][1])
             after == SelectSeq(front, LAMBDA r : r[column][1] > last[column][1])
         IN before \o <<last>> \o after

\* df.sort_values(by=column, ascending=False): insertion of the rows in turn
RECURSIVE SortDescending(_, _)
SortDescending(rows, column) ==
    IF rows = <<>> THEN <<>>
    ELSE LET front == SortDescending(SubSeq(rows, 1, Len(rows) - 1), column)
             last == rows[Len(rows)]
             before == SelectSeq(front, LAMBDA r : r[column][1] >= last[column][1])
             after == SelectSeq(front, LAMBDA r : r[column][1] < last[column][1])
         IN before \o <<last>> \o after

\* Mutant: a left join (a left row without a match is kept)
RECURSIVE MergeRowsLeft(_, _, _)
MergeRowsLeft(left, right, key) ==
    IF left = <<>> THEN <<>>
    ELSE LET matches == SelectSeq(right, LAMBDA r : r[key] = Head(left)[key])
         IN (IF matches = <<>> THEN <<Head(left)>>
             ELSE [k \in 1..Len(matches) |-> DictUpdate(Head(left), matches[k])])
            \o MergeRowsLeft(Tail(left), right, key)

\* pd.merge(left, right, on=key): inner join, in the order of the left rows
RECURSIVE MergeRows(_, _, _)
MergeRows(left, right, key) ==
    IF left = <<>> THEN <<>>
    ELSE LET matches == SelectSeq(right, LAMBDA r : r[key] = Head(left)[key])
         IN [k \in 1..Len(matches) |-> DictUpdate(Head(left), matches[k])]
            \o MergeRows(Tail(left), right, key)

\* ------------------------------------------------------------------------
\* The ChEMBL registry: the records of the model
\* ------------------------------------------------------------------------
UniprotId == "P14780"
TargetId == "CHEMBL321"

BioColumns == {"molecule_chembl_id", "standard_value", "standard_units",
               "assay_description", "units", "value"}

Activity(id, value, unit, description) ==
    [molecule_chembl_id |-> Some(id), standard_value |-> value,
     standard_units |-> Some(unit), assay_description |-> description,
     units |-> Some(unit), value |-> value]

\* The client returns units and value next to standard_units and
\* standard_value; a value is text or missing.
ActivityRecords ==
    { Activity("M1", Some(<<"1", "0", "0">>), "nM", Some("binding")),
      Activity("M1", Some(<<"1", "0", "0", "0">>), "nM", Some("binding")),
      Activity("M1", None, "nM", Some("binding")),
      Activity("M2", Some(<<"1", "0", "0", "0">>), "uM", Some("binding")),
      Activity("M2", Some(<<"a", "b", "c">>), "nM", Some("binding")),
      Activity("M2", Some(<<"0">>), "nM", Some("binding")),
      Activity("M2", Some(<<"1", "0", "0", "0">>), "nM", Some("binding")) }

Molecule(id, structures) ==
    [molecule_chembl_id |-> Some(id), molecule_structures |-> structures]

MoleculeRecords ==
    { Molecule("M1", Some([canonical_smiles |-> Ethanol, molfile |-> "mol"])),
      Molecule("M1", Some([canonical_smiles |-> BenzoicAcid, molfile |-> "mol"])),
      Molecule("M2", Some([canonical_smiles |-> Eicosane, molfile |-> "mol"])),
      Molecule("M2", Some([molfile |-> "mol"])),
      Molecule("M2", None),
      Molecule("M3", Some([canonical_smiles |-> BenzoicAcid, molfile |-> "mol"])) }

\* ------------------------------------------------------------------------
\* caddkit/api/chembl.py
\* ------------------------------------------------------------------------
\* Every exception is caught inside; no targets give an empty table
get_chembl_targets_by_uniprot(id) ==
    FromRecords({"target_chembl_id"},
                IF id = UniprotId
                THEN [k \in 1..Len(reg_targets) |-> [target_chembl_id |-> reg_targets[k]]]
                ELSE <<>>)

\* Mutant: the index is ignored and the first match is taken
get_chembl_id_by_uniprot_First(id, loc) ==
    LET targets == get_chembl_targets_by_uniprot(id)
    IN IF targets.rows /= <<>>
       THEN Some(targets.rows[1].target_chembl_id)
       ELSE None

\* targets.iloc[loc]["target_chembl_id"]; IndexError is caught and gives None
get_chembl_id_by_uniprot(id, loc) ==
    LET targets == get_chembl_targets_by_uniprot(id)
        n == Len(targets.rows)
        position == IF loc >= 0 THEN loc + 1 ELSE n + loc + 1
    IN IF position \in 1..n
       THEN Some(targets.rows[position].target_chembl_id)
       ELSE None

\* The activities whose target is chembl_id; every exception is caught inside
query_bioactivity(id) ==
    FromRecords(BioColumns, IF id = Some(TargetId) THEN reg_activities ELSE <<>>)

\* The molecules whose id is in the list; every exception is caught inside
query_compounds(compounds_list) ==
    FromRecords({"molecule_chembl_id", "molecule_structures"},
                SelectSeq(reg_molecules,
                          LAMBDA r : r.molecule_chembl_id \in Range(compounds_list)))

\* ------------------------------------------------------------------------
\* The potency conversion the pipeline imports (one argument, nanomolar):
\* pIC50 = 9 - log10(IC50), in hundredths; it fails for a value <= 0.
\* ------------------------------------------------------------------------
Log10Hundredths(n) ==
    CASE n = 1 -> 0 [] n = 10 -> 100 [] n = 100 -> 200 [] n = 1000 -> 300

convert_ic50_to_pic50(ic50) ==
    IF ic50 <= 0 THEN Raise("InvalidPotencyInput")
    ELSE Return(900 - Log10Hundredths(ic50))

\* ------------------------------------------------------------------------
\* DataRequestPipeline: the step methods.  Each wraps its body in
\* try/except and raises RuntimeError for any exception of the body.
\* A method that changed its argument in place before it raised leaves
\* the caller's table changed (arg).
\* ------------------------------------------------------------------------
RaiseAfter(msg, arg) == [raised |-> TRUE, msg |-> msg, arg |-> arg]

\* The caller's variable after the call: the returned value, or the argument
\* as the failed call left it
ValueAfter(outcome, before) ==
    IF ~outcome.raised THEN outcome.result
    ELSE IF "arg" \in DOMAIN outcome THEN outcome.arg ELSE before

get_chembl_id(id) == Return(get_chembl_id_by_uniprot(id, 0))

query_bioactivity_data(id) == Return(query_bioactivity(id))

process_bioactivity_data(table) ==
    LET dropped == DropColumns(table, {"units", "value"})
    IN IF dropped.raised
       THEN Raise("Error processing bioactivity data: " \o dropped.msg)
       ELSE
       LET typed == AsTypeFloat(dropped.result, "standard_value")
       IN IF typed.raised
          THEN RaiseAfter("Error processing bioactivity data: " \o typed.msg,
                          dropped.result)
          ELSE IF ~({"standard_units", "molecule_chembl_id"} \subseteq typed.result.columns)
          THEN RaiseAfter("Error processing bioactivity data: KeyError", dropped.result)
          ELSE
          LET complete == DropNa(typed.result.rows)
              nanomolar == SelectSeq(complete, LAMBDA r : r.standard_units = Some("nM"))
              unique == DropDuplicates(nanomolar, "molecule_chembl_id")
          IN Return([columns |-> (typed.result.columns
                                     \ {"standard_value", "standard_units"})
                                 \cup {"IC50", "units"},
                     rows |-> [k \in 1..Len(unique) |->
                                 RenameRow(RenameRow(unique[k], "standard_value", "IC50"),
                                           "standard_units", "units")]])

query_compound_data(molecule_chembl_ids) == Return(query_compounds(molecule_chembl_ids))

\* Mutant: a structure blob without the canonical_smiles key aborts the call
process_compound_data_KeyErrorAborts(table) ==
    LET complete == DropNa(table.rows)
    IN IF complete /= <<>> /\ "molecule_chembl_id" \notin table.columns
       THEN RaiseAfter("Error processing compound data: KeyError",
                       [columns |-> table.columns, rows |-> complete])
       ELSE
       LET unique == DropDuplicates(complete, "molecule_chembl_id")
           canonical_smiles ==
               [k \in 1..Len(unique) |->
                   Some(unique[k].molecule_structures[1].canonical_smiles)]
           with_smiles ==
               [columns |-> table.columns \cup {"smiles"},
                rows |-> [k \in 1..Len(unique) |->
                            DictUpdate(unique[k], [smiles |-> canonical_smiles[k]])]]
           dropped == DropColumns(with_smiles, {"molecule_structures"})
       IN IF \E k \in 1..Len(unique) :
                 \/ "molecule_structures" \notin DOMAIN unique[k]
                 \/ "canonical_smiles" \notin DOMAIN unique[k].molecule_structures[1]
          THEN RaiseAfter("Error processing compound data: KeyError",
                          [columns |-> table.columns, rows |-> unique])
          ELSE IF dropped.raised
          THEN RaiseAfter("Error processing compound data: " \o dropped.msg, with_smiles)
          ELSE dropped

process_compound_data(table) ==
    LET complete == DropNa(table.rows)
    IN IF complete /= <<>> /\ "molecule_chembl_id" \notin table.columns
       THEN RaiseAfter("Error processing compound data: KeyError",
                       [columns |-> table.columns, rows |-> complete])
       ELSE
       LET unique == DropDuplicates(complete, "molecule_chembl_id")
           canonical_smiles ==
               [k \in 1..Len(unique) |->
                   IF /\ "molecule_structures" \in DOMAIN unique[k]
                      /\ "canonical_smiles" \in DOMAIN unique[k].molecule_structures[1]
                   THEN Some(unique[k].molecule_structures[1].canonical_smiles)
                   ELSE None]
           with_smiles ==
               [columns |-> table.columns \cup {"smiles"},
                rows |-> [k \in 1..Len(unique) |->
                            DictUpdate(unique[k], [smiles |-> canonical_smiles[k]])]]
           dropped == DropColumns(with_smiles, {"molecule_structures"})
       IN IF dropped.raised
          THEN RaiseAfter("Error processing compound data: " \o dropped.msg, with_smiles)
          ELSE dropped

merge_data(bioactivities, compounds) ==
    IF ~({"molecule_chembl_id", "IC50", "units"} \subseteq bioactivities.columns)
       \/ "molecule_chembl_id" \notin compounds.columns
    THEN Raise("Error merging data: KeyError")
    ELSE LET left == [k \in 1..Len(bioactivities.rows) |->
                         Project(bioactivities.rows[k],
                                 {"molecule_chembl_id", "IC50", "units"})]
         IN Return([columns |-> {"molecule_chembl_id", "IC50", "units"}
                                    \cup compounds.columns,
                    rows |-> MergeRows(left, compounds.rows, "molecule_chembl_id")])

\* The pipeline's method convert_ic50_to_pic50(output_df)
convert_step(output_df) ==
    IF "IC50" \notin output_df.columns
    THEN Raise("Error converting IC50 to pIC50: KeyError")
    ELSE IF \E k \in 1..Len(output_df.rows) :
                convert_ic50_to_pic50(output_df.rows[k].IC50[1]).raised
    THEN Raise("Error converting IC50 to pIC50: InvalidPotencyInput")
    ELSE LET scored == [k \in 1..Len(output_df.rows) |->
                 DictUpdate(output_df.rows[k],
                     [pIC50 |-> Some(convert_ic50_to_pic50(output_df.rows[k].IC50[1]).result)])]
             defined == SelectSeq(scored, LAMBDA r : r.pIC50 /= None)
             sorted == SortDescending(defined, "pIC50")
             kept == (output_df.columns \cup {"pIC50"}) \ {"units", "IC50"}
         IN IF ~({"units", "IC50"} \subseteq output_df.columns)
            THEN RaiseAfter("Error converting IC50 to pIC50: KeyError",
                            [columns |-> output_df.columns \cup {"pIC50"},
                             rows |-> sorted])
            ELSE Return([columns |-> kept,
                         rows |-> [k \in 1..Len(sorted) |-> Project(sorted[k], kept)]])

\* The step methods that take one table, by name
StepMethod(method, table) ==
    CASE method = "process_bioactivity_data" -> process_bioactivity_data(table)
      [] method = "process_compound_data" -> process_compound_data(table)
      [] method = "convert_ic50_to_pic50" -> convert_step(table)

\* The caller's table after a call method(table) with the given outcome:
\* what the inplace=True operations of the method made of it.
\* process_bioactivity_data drops units and value from it (line 66) and goes
\* on with the copy astype returns (line 67); the other two methods change
\* nothing but the caller's table and return that same object.
TableAfter(method, table, outcome) ==
    IF outcome.raised THEN ValueAfter(outcome, table)
    ELSE IF method = "process_bioactivity_data"
    THEN DropColumns(table, {"units", "value"}).result
    ELSE outcome.result

\* ------------------------------------------------------------------------
\* DataRequestPipeline.run
\* ------------------------------------------------------------------------
StageMethods == <<"get_chembl_id", "query_bioactivity_data", "process_bioactivity_data",
                  "query_compound_data", "process_compound_data", "merge_data",
                  "convert_ic50_to_pic50">>

RunLocalsFresh ==
    /\ chembl_id = None
    /\ bioactivities_df = EmptyTable
    /\ compounds_df = EmptyTable
    /\ merged_df = EmptyTable
    /\ run_result = EmptyTable
    /\ run_raised = ""
    /\ failed_stage = 0
    /\ calls = <<>>
    /\ requested_ids = <<>>

\* DataRequestPipeline.__init__, before a registry holding nothing
PipelineConstructed ==
    /\ uniprot_id = UniprotId
    /\ ppc = "idle"
    /\ RunLocalsFresh
    /\ run_returns = <<>>

\* The registries a run may face
Registries ==
    /\ reg_targets \in {<<>>, <<TargetId>>}
    /\ reg_activities \in IF reg_targets = <<>> THEN {<<>>}
                          ELSE SeqsUpTo(ActivityRecords, MaxActivities)
    /\ reg_molecules \in SeqsUpTo(MoleculeRecords, MaxMolecules)

\* Mutant: the except branch of run lets the exception through
RunOnExceptionReraise(msg) == [raised |-> msg, result |-> EmptyTable]

\* except Exception as e: print and return pd.DataFrame()
RunOnException(msg) == [raised |-> "", result |-> EmptyTable]

RunStart ==
    /\ ppc = "idle"
    /\ Len(run_returns) < MaxRuns
    /\ ppc' = "stage1"
    /\ UNCHANGED <<reg_targets, reg_activities, reg_molecules, uniprot_id,
                   chembl_id, bioactivities_df, compounds_df, merged_df,
                   run_result, run_raised, failed_stage, calls>>
    /\ UNCHANGED <<requested_ids, run_returns, fvars, cvars, xvars>>

\* One step of run: call the method; go on with its result or to the except
\* branch with its exception
Step(stage, outcome, next) ==
    /\ calls' = Append(calls, StageMethods[stage])
    /\ IF outcome.raised
       THEN /\ failed_stage' = stage
            /\ run_raised' = outcome.msg
            /\ ppc' = "except"
       ELSE /\ ppc' = next
            /\ UNCHANGED <<failed_stage, run_raised>>
    /\ UNCHANGED <<reg_targets, reg_activities, reg_molecules, uniprot_id>>

Stage1 ==
    /\ ppc = "stage1"
    /\ LET outcome == get_chembl_id(uniprot_id)
       IN /\ Step(1, outcome, "stage2")
          /\ chembl_id' = ValueAfter(outcome, chembl_id)
    /\ UNCHANGED <<bioactivities_df, compounds_df, merged_df, run_result>>
    /\ UNCHANGED <<requested_ids, run_returns, fvars, cvars, xvars>>

Stage2 ==
    /\ ppc = "stage2"
    /\ LET outcome == query_bioactivity_data(chembl_id)
       IN /\ Step(2, outcome, "stage3")
          /\ bioactivities_df' = ValueAfter(outcome, bioactivities_df)
    /\ UNCHANGED <<chembl_id, compounds_df, merged_df, run_result>>
    /\ UNCHANGED <<requested_ids, run_returns, fvars, cvars, xvars>>

Stage3 ==
    /\ ppc = "stage3"
    /\ LET outcome == process_bioactivity_data(bioactivities_df)
       IN /\ Step(3, outcome, "stage4")
          /\ bioactivities_df' = ValueAfter(outcome, bioactivities_df)
    /\ UNCHANGED <<chembl_id, compounds_df, merged_df, run_result>>
    /\ UNCHANGED <<requested_ids, run_returns, fvars, cvars, xvars>>

Stage4 ==
    /\ ppc = "stage4"
    /\ LET molecule_chembl_ids ==
               [k \in 1..Len(bioactivities_df.rows) |->
                   bioactivities_df.rows[k].molecule_chembl_id]
           outcome == query_compound_data(molecule_chembl_ids)
       IN /\ Step(4, outcome, "stage5")
          /\ compounds_df' = ValueAfter(outcome, compounds_df)
          /\ requested_ids' = molecule_chembl_ids
    /\ UNCHANGED <<chembl_id, bioactivities_df, merged_df, run_result>>
    /\ UNCHANGED <<run_returns, fvars, cvars, xvars>>

Stage5 ==
    /\ ppc = "stage5"
    /\ LET outcome == process_compound_data(compounds_df)
       IN /\ Step(5, outcome, "stage6")
          /\ compounds_df' = ValueAfter(outcome, compounds_df)
    /\ UNCHANGED <<chembl_id, bioactivities_df, merged_df, run_result>>
    /\ UNCHANGED <<requested_ids, run_returns, fvars, cvars, xvars>>

Stage6 ==
    /\ ppc = "stage6"
    /\ LET outcome == merge_data(bioactivities_df, compounds_df)
       IN /\ Step(6, outcome, "stage7")
          /\ merged_df' = ValueAfter(outcome, merged_df)
    /\ UNCHANGED <<chembl_id, bioactivities_df, compounds_df, run_result>>
    /\ UNCHANGED <<requested_ids, run_returns, fvars, cvars, xvars>>

\* Step 7 and return final_df, which is merged_df changed in place
Stage7 ==
    /\ ppc = "stage7"
    /\ LET outcome == convert_step(merged_df)
       IN /\ Step(7, outcome, "done")
          /\ run_result' = IF outcome.raised THEN run_result ELSE outcome.result
          /\ merged_df' = TableAfter("convert_ic50_to_pic50", merged_df, outcome)
    /\ UNCHANGED <<chembl_id, bioactivities_df, compounds_df>>
    /\ UNCHANGED <<requested_ids, run_returns, fvars, cvars, xvars>>

\* The except branch of run
RunExcept ==
    /\ ppc = "except"
    /\ LET handled == RunOnException(run_raised)
       IN /\ run_raised' = handled.raised
          /\ run_result' = handled.result
    /\ ppc' = "done"
    /\ UNCHANGED <<reg_targets, reg_activities, reg_molecules, uniprot_id,
                   chembl_id, bioactivities_df, compounds_df, merged_df,
                   failed_stage, calls>>
    /\ UNCHANGED <<requested_ids, run_returns, fvars, cvars, xvars>>

\* Mutant: run keeps the resolved ChEMBL id in the field it read the UniProt
\* ID from
FieldAfterRunResolved(field) == TargetId

\* run assigns no field of the instance (lines 170-208 hold no self.x = ...)
FieldAfterRun(field) == field

\* The caller takes the returned table, to keep it or not; the run's locals
\* are gone
Returned(keep) ==
    /\ ppc = "done"
    /\ ppc' = "idle"
    /\ chembl_id' = None
    /\ bioactivities_df' = EmptyTable
    /\ compounds_df' = EmptyTable
    /\ merged_df' = EmptyTable
    /\ run_result' = EmptyTable
    /\ run_raised' = ""
    /\ failed_stage' = 0
    /\ calls' = <<>>
    /\ requested_ids' = <<>>
    /\ run_returns' = IF keep THEN Append(run_returns, run_result) ELSE run_returns
    /\ uniprot_id' = FieldAfterRun(uniprot_id)
    /\ UNCHANGED <<reg_targets, reg_activities, reg_molecules>>
    /\ UNCHANGED <<fvars, cvars, xvars>>

RunReturn == Returned(FALSE)

RunReturnKept == Returned(TRUE)

\* ------------------------------------------------------------------------
\* Specifications
\* ------------------------------------------------------------------------
\* No pure function has been called
CallsAbsent ==
    /\ conv_calls = <<>>
    /\ fp_calls = <<>>
    /\ rule_molecule = None
    /\ rule_calls = <<>>
    /\ id_calls = <<>>
    /\ step_table = EmptyTable
    /\ step_calls = <<>>
    /\ pdb_fn = ""
    /\ rpc = "idle"
    /\ attempt_log = <<>>
    /\ fetch_result = None
    /\ fetch_raised = ""

\* The names caddkit/fingerprints.py binds: its imports and its functions
ShippedGlobals ==
    {"Chem", "DataStructs", "AllChem", "MACCSkeys", "rdFingerprintGenerator",
     "np", "pd", "calculate_morgan_fingerprint_as_bit_vect",
     "calculate_ap_fingerprint_as_bit_vect", "calculate_rdk5_fingerprint_as_bit_vect",
     "calculate_maccs_fingerprint_as_bit_vect",
     "calculate_morgan2_fingerprint_as_bit_vect",
     "calculate_morgan3_fingerprint_as_bit_vect", "generate_fingerprint_dfs",
     "generate_fingerprint_dfs_to_csv"}

ExportLocalsFresh ==
    /\ X_df = EmptyTable
    /\ fingerprint_fn = ""
    /\ smiles_col = ""
    /\ chunk_size = 0
    /\ xpc = "idle"
    /\ start_idx = 0
    /\ export_raised = ""
    /\ sink_before = None
    /\ removals = 0
    /\ header_writes = 0
    /\ commits = <<>>

\* No streaming export is under way and there is no file
ExportAbsent ==
    /\ module_globals = ShippedGlobals
    /\ sink = None
    /\ ExportLocalsFresh

\* The filter engine alone: no pipeline run is under way
InitFilter ==
    /\ CallsAbsent
    /\ ExportAbsent
    /\ FilterConstructed
    /\ PipelineConstructed
    /\ reg_targets = <<>>
    /\ reg_activities = <<>>
    /\ reg_molecules = <<>>

NextFilter ==
    \/ \E choice \in FilterChoices : AddFilter(choice[1], choice[2])
    \/ \E table \in InputTables, column \in {"smiles", "SMILES"} :
           ProcessStart(table, column)
    \/ RowStart
    \/ FilterStep
    \/ RowEnd
    \/ ProcessFinish
    \/ ProcessReturn

SpecFilter == InitFilter /\ [][NextFilter]_vars

\* The pipeline alone, against any registry of the model
InitPipeline ==
    /\ CallsAbsent
    /\ ExportAbsent
    /\ FilterConstructed
    /\ PipelineConstructed
    /\ Registries

NextPipeline ==
    \/ RunStart
    \/ Stage1
    \/ Stage2
    \/ Stage3
    \/ Stage4
    \/ Stage5
    \/ Stage6
    \/ Stage7
    \/ RunExcept
    \/ RunReturn

SpecPipeline == InitPipeline /\ [][NextPipeline]_vars

\* ------------------------------------------------------------------------
\* CompoundFilter.process: what the claims speak of
\* ------------------------------------------------------------------------
\* The structure string of input row i
SmilesOf(i) == df.rows[i][smiles_column]
\* Predicate j raises on input row i / returns fulfilled = False on it
Raises(i, j) == CallFilter(filters[j], SmilesOf(i)).raised
Unfulfilled(i, j) ==
    /\ ~Raises(i, j)
    /\ ~CallFilter(filters[j], SmilesOf(i)).result.fulfilled
\* Predicate j has been called on row i / the row's verdict has been recorded
WasEvaluated(i, j) == <<i, j>> \in Range(evaluated)
Finished(i) == i \in 1..Len(results)
\* The first registered predicate that raises on row i (0: none does)
FirstRaiser(i) ==
    IF \E j \in 1..Len(filters) : Raises(i, j)
    THEN CHOOSE j \in 1..Len(filters) :
             Raises(i, j) /\ \A m \in 1..(j - 1) : ~Raises(i, m)
    ELSE 0
\* The names of the predicates 1..upto unfulfilled on row i, in registration order
RECURSIVE UnfulfilledNames(_, _)
UnfulfilledNames(i, upto) ==
    IF upto = 0 THEN <<>>
    ELSE IF Unfulfilled(i, upto)
         THEN Append(UnfulfilledNames(i, upto - 1), filter_names[upto])
         ELSE UnfulfilledNames(i, upto - 1)
RowIndexes == 1..Len(df.rows)
FilterIndexes == 1..Len(filters)
IndexesOf(table) == {table[k].index : k \in 1..Len(table)}
\* process got past its check of smiles_column and has ended
ProcessEnded == fpc = "done" /\ smiles_column \in df.columns
ProcessReturned == ProcessEnded /\ process_raised = ""

\* C1: for any table (the empty one included) and any registered filters,
\* process returns passed and violated: disjoint, their sizes summing to the
\* number of input rows, every violated row with a non-empty reason string
\* and every passed row with no recorded reason.
C1_PartitionWithReasons ==
    ProcessEnded =>
        /\ process_raised = ""
        /\ IndexesOf(filtered_df) \cap IndexesOf(violated_df) = {}
        /\ Len(filtered_df) + Len(violated_df) = Len(df.rows)
        /\ \A k \in 1..Len(violated_df) : violated_df[k].violation_reason /= ""
        /\ \A k \in 1..Len(filtered_df) :
               violation_reasons[filtered_df[k].index] = ""

\* C2: once a predicate has raised for a compound, no predicate registered
\* after it is ever evaluated for that compound, and the compound is recorded
\* violated with the reason "<name>: <message>" (after the names of the
\* predicates that were unfulfilled before it); the row is returned in
\* violated with that reason.
C2_RaiseShortCircuits ==
    \A i \in RowIndexes : \A j \in FilterIndexes :
        (WasEvaluated(i, j) /\ Raises(i, j)) =>
            /\ \A later \in (j + 1)..Len(filters) : ~WasEvaluated(i, later)
            /\ Finished(i) =>
                 /\ results[i].violated = TRUE
                 /\ violation_reasons[i] =
                      Join(", ", Append(UnfulfilledNames(i, j - 1),
                                        filter_names[j] \o ": " \o
                                        CallFilter(filters[j], SmilesOf(i)).msg))
            /\ ProcessEnded =>
                 /\ process_raised = ""
                 /\ \E k \in 1..Len(violated_df) :
                        /\ violated_df[k].index = i
                        /\ violated_df[k].violation_reason = violation_reasons[i]

\* C2 witness: a predicate raised for a compound while a later one was registered
C2_Witness ==
    /\ ProcessReturned
    /\ \E i \in RowIndexes : \E j \in FilterIndexes :
           WasEvaluated(i, j) /\ Raises(i, j) /\ j < Len(filters)

\* C3: a predicate returning fulfilled = False without raising puts its name
\* in the compound's reasons and marks it violated, and does not end the
\* loop: a later predicate is skipped only when one between them raised.  A
\* compound on which no predicate raises is evaluated by all of them and
\* carries exactly the names of the unfulfilled ones, in registration order.
C3_UnfulfilledContinues ==
    \A i \in RowIndexes : \A j \in FilterIndexes :
        (WasEvaluated(i, j) /\ Unfulfilled(i, j) /\ Finished(i)) =>
            /\ results[i].violated = TRUE
            /\ \A later \in (j + 1)..Len(filters) :
                   (\A m \in (j + 1)..(later - 1) : ~Raises(i, m))
                       => WasEvaluated(i, later)
            /\ FirstRaiser(i) = 0 =>
                 /\ \A any \in FilterIndexes : WasEvaluated(i, any)
                 /\ violation_reasons[i] =
                      Join(", ", UnfulfilledNames(i, Len(filters)))
            /\ FirstRaiser(i) /= 0 =>
                 violation_reasons[i] =
                     Join(", ", Append(UnfulfilledNames(i, FirstRaiser(i) - 1),
                                       RaisedReason(filter_names[FirstRaiser(i)],
                                           CallFilter(filters[FirstRaiser(i)],
                                                      SmilesOf(i)).msg)))

\* C3 witness: a compound unfulfilled on two predicates, neither raising
C3_Witness ==
    /\ ProcessReturned
    /\ \E i \in RowIndexes :
           /\ Len(filters) = 2
           /\ Unfulfilled(i, 1) /\ Unfulfilled(i, 2)
           /\ filter_names[1] /= filter_names[2]
           /\ WasEvaluated(i, 2)

\* C4: the rows of passed and violated, restricted to the input's columns,
\* are the input's rows with the same value in every original column, and
\* violated carries exactly one more column, the violation reason.
C4_OriginalColumnsKept ==
    ProcessReturned =>
        /\ IndexesOf(filtered_df) \cup IndexesOf(violated_df) = RowIndexes
        /\ \A k \in 1..Len(filtered_df) :
               Project(filtered_df[k], df.columns) = df.rows[filtered_df[k].index]
        /\ \A k \in 1..Len(violated_df) :
               /\ Project(violated_df[k], df.columns) = df.rows[violated_df[k].index]
               /\ DOMAIN violated_df[k] \ {"index"} =
                      df.columns \cup {"violation_reason"}

\* C5: with a built-in predicate registered, each compound whose structure
\* string does not parse ends in violated with a non-empty reason, process
\* returns normally, and every compound whose string parses is evaluated by
\* every registered predicate and gets the verdict its own row determines;
\* both built-in predicates raise "Invalid SMILES string: ..." for a string
\* that does not parse.
C5_MalformedIsLocal ==
    /\ calculate_ro5_properties(Unparseable) =
           Raise("Invalid SMILES string: invalid_smiles")
    /\ calculate_soft_reos_properties(Unparseable) =
           Raise("Invalid SMILES string: invalid_smiles")
    /\ (/\ ProcessEnded
        /\ Range(filters) \cap BuiltinPredicates /= {}
        /\ \E i \in RowIndexes : MolFromSmiles(SmilesOf(i)) = None)
       => /\ process_raised = ""
          /\ \A i \in RowIndexes :
                 IF MolFromSmiles(SmilesOf(i)) = None
                 THEN \E k \in 1..Len(violated_df) :
                          /\ violated_df[k].index = i
                          /\ violated_df[k].violation_reason /= ""
                 ELSE /\ \A j \in FilterIndexes : WasEvaluated(i, j)
                      /\ violation_reasons[i] =
                             Join(", ", UnfulfilledNames(i, Len(filters)))
                      /\ (i \in IndexesOf(violated_df))
                             <=> (\E j \in FilterIndexes : Unfulfilled(i, j))

\* C5 witness: a batch with an unparseable and a parseable structure string,
\* filtered by two predicates, a built-in one among them
C5_Witness ==
    /\ ProcessReturned
    /\ Len(filters) = 2
    /\ Range(filters) \cap BuiltinPredicates /= {}
    /\ \E i, k \in RowIndexes :
           /\ MolFromSmiles(SmilesOf(i)) = None
           /\ MolFromSmiles(SmilesOf(k)) /= None

\* ------------------------------------------------------------------------
\* DataRequestPipeline: what the properties speak about
\* ------------------------------------------------------------------------
\* The table the bioactivity cleaner is given by run
CleanerInput == query_bioactivity(get_chembl_id_by_uniprot(uniprot_id, 0))

\* process_bioactivity_data has been called in this run
CleanerCalled == Len(calls) >= 3

\* process_bioactivity_data has returned in this run
CleanerReturned == CleanerCalled /\ failed_stage /= 3

ExpectedBioColumns == {"molecule_chembl_id", "standard_value", "standard_units",
                       "units", "value"}

\* An input row the cleaner keeps up to deduplication
Retained(r) ==
    /\ \A c \in DOMAIN r \ {"units", "value"} : r[c] /= None
    /\ IsNumeric(r.standard_value[1])
    /\ r.standard_units = Some("nM")

\* Output row out is input row r, cleaned
CleanedFrom(out, r) ==
    /\ out.molecule_chembl_id = r.molecule_chembl_id
    /\ r.standard_value /= None
    /\ IsNumeric(r.standard_value[1])
    /\ out.IC50 = Some(DecimalValue(r.standard_value[1]))
    /\ out.units = r.standard_units
    /\ out.assay_description = r.assay_description

UniqueCompounds(rows) ==
    \A a, b \in 1..Len(rows) :
        rows[a].molecule_chembl_id = rows[b].molecule_chembl_id => a = b

\* C6: whenever a stage of run fails, run lets no exception out to its caller
\* and returns an empty table; no stage after the failed one is called and no
\* partially processed rows are returned.
C6_FailureReturnsEmpty ==
    /\ ppc \in {"done", "idle"} => run_raised = ""
    /\ failed_stage /= 0 =>
           /\ ppc \in {"except", "done"}
           /\ calls = SubSeq(StageMethods, 1, failed_stage)
           /\ ppc = "done" => run_result = EmptyTable

\* Stage 5 failed with cleaned bioactivity rows at hand; run has returned
C6_Witness ==
    /\ ppc = "done"
    /\ failed_stage = 5
    /\ bioactivities_df.rows /= <<>>
    /\ run_result = EmptyTable

\* C7: when the target registry has no match for the identifier, run fails at
\* stage 1, calls neither the bioactivity retrieval nor any later stage, and
\* returns an empty table.
C7_NoTargetFailsAtStage1 ==
    (reg_targets = <<>> /\ ppc = "done") =>
        /\ failed_stage = 1
        /\ calls = <<"get_chembl_id">>
        /\ run_result = EmptyTable

\* C8: every row of the table run returns carries a structure string; a
\* compound whose structure record has no canonical_smiles field is not in it.
C8_EveryRowHasStructure ==
    ppc = "done" =>
        \A k \in 1..Len(run_result.rows) :
            /\ "smiles" \in DOMAIN run_result.rows[k]
            /\ run_result.rows[k].smiles /= None

\* C9 as stated: the cleaner's output has at most one row per compound, that
\* row being the first row of the compound among the input rows; every output
\* row has unit nM; the output has no more rows than the input.
C9_FirstOfInputRows ==
    CleanerReturned =>
        LET input == CleanerInput.rows
            output == bioactivities_df.rows
        IN /\ UniqueCompounds(output)
           /\ \A k \in 1..Len(output) : output[k].units = Some("nM")
           /\ Len(output) <= Len(input)
           /\ \A k \in 1..Len(output) : \E i \in 1..Len(input) :
                  /\ CleanedFrom(output[k], input[i])
                  /\ \A j \in 1..(i - 1) :
                         input[j].molecule_chembl_id /= input[i].molecule_chembl_id

\* C9: the cleaner's output has at most one row per compound, that row being
\* the first row of the compound among the input rows that have no missing
\* cell, a numeric value and unit nM; every output row has unit nM; the output
\* has no more rows than the input.
C9_FirstOfRetainedRows ==
    CleanerReturned =>
        LET input == CleanerInput.rows
            output == bioactivities_df.rows
        IN /\ UniqueCompounds(output)
           /\ \A k \in 1..Len(output) : output[k].units = Some("nM")
           /\ Len(output) <= Len(input)
           /\ \A k \in 1..Len(output) : \E i \in 1..Len(input) :
                  /\ Retained(input[i])
                  /\ CleanedFrom(output[k], input[i])
                  /\ \A j \in 1..(i - 1) :
                         Retained(input[j]) =>
                             input[j].molecule_chembl_id /= input[i].molecule_chembl_id

\* A compound with two retained rows of different values has been cleaned
C9_Witness ==
    /\ ppc = "stage4"
    /\ Len(bioactivities_df.rows) = 1
    /\ \E i, j \in 1..Len(reg_activities) :
           /\ i < j
           /\ Retained(reg_activities[i])
           /\ Retained(reg_activities[j])
           /\ reg_activities[i].molecule_chembl_id = reg_activities[j].molecule_chembl_id
           /\ reg_activities[i].standard_value /= reg_activities[j].standard_value

\* C10: the cleaner fails as a whole only when an expected column is missing;
\* a row whose raw value is not a number is dropped and the other rows are
\* still returned.
C10_UncoercibleRowDropped ==
    CleanerCalled =>
        /\ failed_stage = 3 => ~(ExpectedBioColumns \subseteq CleanerInput.columns)
        /\ failed_stage /= 3 =>
               \A i \in 1..Len(CleanerInput.rows) :
                   Retained(CleanerInput.rows[i]) =>
                       \E k \in 1..Len(bioactivities_df.rows) :
                           bioactivities_df.rows[k].molecule_chembl_id
                               = CleanerInput.rows[i].molecule_chembl_id

\* The table the potency-conversion stage is given by run
ConverterInput == merge_data(bioactivities_df, compounds_df).result

\* convert_ic50_to_pic50 (the method) has been called in this run
ConverterCalled == Len(calls) = 7

CompoundsOf(rows) == {rows[k].molecule_chembl_id : k \in 1..Len(rows)}

\* C11: in the potency-conversion stage a merged row whose IC50 cannot be
\* converted is dropped and the stage goes on with the other rows (it does
\* not abort); every row of the stage's output has a potency score.
C11_UnconvertibleRowDropped ==
    ConverterCalled =>
        /\ failed_stage /= 7
        /\ \A k \in 1..Len(run_result.rows) : run_result.rows[k].pIC50 /= None
        /\ \A i \in 1..Len(ConverterInput.rows) :
               LET row == ConverterInput.rows[i]
               IN convert_ic50_to_pic50(row.IC50[1]).raised
                      <=> row.molecule_chembl_id \notin CompoundsOf(run_result.rows)

\* C12: the table a successful run returns is sorted by potency score in
\* descending order: of two adjacent rows the earlier has the greater or
\* equal pIC50.
C12_SortedDescending ==
    (ppc = "done" /\ failed_stage = 0) =>
        \A k \in 1..(Len(run_result.rows) - 1) :
            run_result.rows[k].pIC50[1] >= run_result.rows[k + 1].pIC50[1]

\* A successful run whose merged rows came in ascending order of potency
C12_Witness ==
    /\ ppc = "done"
    /\ failed_stage = 0
    /\ Len(run_result.rows) = 2
    /\ run_result.rows[1].pIC50[1] > run_result.rows[2].pIC50[1]
    /\ ConverterInput.rows[1].IC50[1] > ConverterInput.rows[2].IC50[1]

\* ------------------------------------------------------------------------
\* merge_data called on its own, with any cleaned bioactivity table and any
\* normalized compound table of the model
\* ------------------------------------------------------------------------
CleanedBioactivities ==
    {process_bioactivity_data(FromRecords(BioColumns, a)).result :
        a \in {b \in SeqsUpTo(ActivityRecords, MaxActivities) :
                 ~process_bioactivity_data(FromRecords(BioColumns, b)).raised}}

NormalizedCompounds ==
    {process_compound_data(
         FromRecords({"molecule_chembl_id", "molecule_structures"}, m)).result :
        m \in {n \in SeqsUpTo(MoleculeRecords, MaxMolecules) :
                 ~process_compound_data(
                      FromRecords({"molecule_chembl_id", "molecule_structures"},
                                  n)).raised}}

InitMerge ==
    /\ CallsAbsent
    /\ ExportAbsent
    /\ FilterConstructed
    /\ reg_targets = <<>>
    /\ reg_activities = <<>>
    /\ reg_molecules = <<>>
    /\ uniprot_id = UniprotId
    /\ ppc = "idle"
    /\ chembl_id = None
    /\ bioactivities_df \in CleanedBioactivities
    /\ compounds_df \in NormalizedCompounds
    /\ merged_df = EmptyTable
    /\ run_result = EmptyTable
    /\ run_raised = ""
    /\ failed_stage = 0
    /\ calls = <<>>
    /\ requested_ids = <<>>
    /\ run_returns = <<>>

\* pipeline.merge_data(bioactivities_df, compounds_df)
MergeDataCall ==
    /\ ppc = "idle"
    /\ calls = <<>>
    /\ LET outcome == merge_data(bioactivities_df, compounds_df)
       IN /\ merged_df' = ValueAfter(outcome, merged_df)
          /\ run_raised' = IF outcome.raised THEN outcome.msg ELSE ""
    /\ calls' = <<"merge_data">>
    /\ ppc' = "returned"
    /\ UNCHANGED <<reg_targets, reg_activities, reg_molecules, uniprot_id, chembl_id,
                   bioactivities_df, compounds_df, run_result, failed_stage>>
    /\ UNCHANGED <<requested_ids, run_returns, fvars, cvars, xvars>>

NextMerge == MergeDataCall

SpecMerge == InitMerge /\ [][NextMerge]_vars

\* C13: the merge is an inner join on the compound id: the merged table has
\* exactly one row for each compound that is in both the cleaned bioactivity
\* table and the normalized compound table, and no row for a compound that is
\* in only one of them.
C13_InnerJoin ==
    calls = <<"merge_data">> =>
        /\ run_raised = ""
        /\ UniqueCompounds(merged_df.rows)
        /\ CompoundsOf(merged_df.rows)
               = CompoundsOf(bioactivities_df.rows) \cap CompoundsOf(compounds_df.rows)

\* Each side has a compound the other has not, and one is shared
C13_Witness ==
    /\ calls = <<"merge_data">>
    /\ Len(merged_df.rows) = 1
    /\ CompoundsOf(bioactivities_df.rows) \ CompoundsOf(compounds_df.rows) /= {}
    /\ CompoundsOf(compounds_df.rows) \ CompoundsOf(bioactivities_df.rows) /= {}

\* ------------------------------------------------------------------------
\* caddkit/utils.py
\* ------------------------------------------------------------------------
\* A Python number is mantissa * 10^exponent, with its type; the model's
\* mantissas are a digit followed by zeros, or zero, or their negatives.
PyInt(m) == [type |-> "int", m |-> m, e |-> 0]
PyFloat(m, e) == [type |-> "float", m |-> m, e |-> e]
PyStr(s) == [type |-> "str", s |-> s]
NoneValue == [type |-> "NoneType"]

IsNumber(v) == v.type \in {"int", "float"}

\* a * b
Times(a, b) == [type |-> "float", m |-> a.m * b.m, e |-> a.e + b.e]

\* from math import log10, in hundredths: of a digit, and of digit * 10^k
DigitLog10 == <<0, 30, 48, 60, 70, 78, 85, 90, 95>>

RECURSIVE IntLog10(_)
IntLog10(m) == IF m >= 10 THEN 100 + IntLog10(m \div 10) ELSE DigitLog10[m]

log10(x) ==
    IF x.m <= 0 THEN Raise("math domain error")
    ELSE Return(IntLog10(x.m) + 100 * x.e)

\* Unit conversion factors to molar (M)
unit_factors ==
    [u \in {"nM", "µM", "mM", "M"} |->
        CASE u = "nM" -> PyFloat(1, -9)
          [] u = "µM" -> PyFloat(1, -6)
          [] u = "mM" -> PyFloat(1, -3)
          [] u = "M" -> PyInt(1)]

\* Mutant: the unit is validated before the value
ic50_to_pic50_UnitFirst(ic50, unit) ==
    IF unit \notin DOMAIN unit_factors
    THEN Raise("Invalid unit '" \o unit \o "'. Supported units are: nM, µM, mM, M.")
    ELSE IF ~IsNumber(ic50) \/ ic50.m <= 0
    THEN Raise("IC50 value must be a positive number.")
    ELSE LET pic50 == log10(Times(ic50, unit_factors[unit]))
         IN IF pic50.raised THEN pic50 ELSE Return(0 - pic50.result)

\* Mutant: the logarithm is not negated
ic50_to_pic50_NotNegated(ic50, unit) ==
    IF ~IsNumber(ic50) \/ ic50.m <= 0
    THEN Raise("IC50 value must be a positive number.")
    ELSE IF unit \notin DOMAIN unit_factors
    THEN Raise("Invalid unit '" \o unit \o "'. Supported units are: nM, µM, mM, M.")
    ELSE log10(Times(ic50, unit_factors[unit]))

ic50_to_pic50(ic50, unit) ==
    IF ~IsNumber(ic50) \/ ic50.m <= 0
    THEN Raise("IC50 value must be a positive number.")
    ELSE IF unit \notin DOMAIN unit_factors
    THEN Raise("Invalid unit '" \o unit \o "'. Supported units are: nM, µM, mM, M.")
    ELSE LET ic50_molar == Times(ic50, unit_factors[unit])
             pic50 == log10(ic50_molar)
         IN IF pic50.raised THEN pic50 ELSE Return(0 - pic50.result)

\* The arguments of the model
MaxCalls == 2

Ic50Inputs ==
    {PyInt(0 - 1000), PyInt(0), PyInt(1), PyInt(10), PyInt(100), PyInt(1000),
     PyFloat(0, 0), PyFloat(5, -1), PyFloat(2, 0), PyFloat(1, 6), PyFloat(1, -10),
     PyStr("invalid"), NoneValue}

UnitInputs == {"nM", "µM", "mM", "M", "ppm"}

\* A call ic50_to_pic50(ic50, unit) by some caller
ConvertCall(ic50, unit) ==
    /\ Len(conv_calls) < MaxCalls
    /\ conv_calls' = Append(conv_calls,
                            [ic50 |-> ic50, unit |-> unit,
                             outcome |-> ic50_to_pic50(ic50, unit)])
    /\ UNCHANGED <<fp_calls, rule_molecule, rule_calls, id_calls, step_table,
                   step_calls, pdb_fn, rpc, attempt_log, fetch_result, fetch_raised>>
    /\ UNCHANGED <<fvars, pvars, xvars>>

InitUtils ==
    /\ CallsAbsent
    /\ ExportAbsent
    /\ FilterConstructed
    /\ PipelineConstructed
    /\ reg_targets = <<>>
    /\ reg_activities = <<>>
    /\ reg_molecules = <<>>

NextUtils == \E ic50 \in Ic50Inputs, unit \in UnitInputs : ConvertCall(ic50, unit)

SpecUtils == InitUtils /\ [][NextUtils]_vars

\* ------------------------------------------------------------------------
\* ic50_to_pic50: what the properties speak about
\* ------------------------------------------------------------------------
Positive(v) == IsNumber(v) /\ v.m > 0

\* The decimal exponent and leading digit of a positive number of the model
RECURSIVE Magnitude(_, _)
Magnitude(m, e) ==
    IF m >= 10 THEN Magnitude(m \div 10, e + 1) ELSE [digit |-> m, exponent |-> e]

\* a < b, for positive numbers of the model
Less(a, b) ==
    LET x == Magnitude(a.m, a.e)
        y == Magnitude(b.m, b.e)
    IN \/ x.exponent < y.exponent
       \/ x.exponent = y.exponent /\ x.digit < y.digit

\* 9 - log10(ic50), in hundredths
NineMinusLog10(v) ==
    LET x == Magnitude(v.m, v.e)
    IN 900 - DigitLog10[x.digit] - 100 * x.exponent

NanomolarCalls ==
    {k \in 1..Len(conv_calls) :
        conv_calls[k].unit = "nM" /\ Positive(conv_calls[k].ic50)}

\* C14: for every positive IC50 in nanomolar ic50_to_pic50 returns
\* 9 - log10(ic50); the result is strictly decreasing in ic50; 1000 nM gives
\* 6, 100 nM gives 7 and 1 nM gives 9.
C14_NanomolarPotency ==
    /\ \A k \in NanomolarCalls :
           /\ ~conv_calls[k].outcome.raised
           /\ conv_calls[k].outcome.result = NineMinusLog10(conv_calls[k].ic50)
           /\ conv_calls[k].ic50 = PyInt(1000) => conv_calls[k].outcome.result = 600
           /\ conv_calls[k].ic50 = PyInt(100) => conv_calls[k].outcome.result = 700
           /\ conv_calls[k].ic50 = PyInt(1) => conv_calls[k].outcome.result = 900
    /\ \A k, l \in NanomolarCalls :
           Less(conv_calls[k].ic50, conv_calls[l].ic50) =>
               conv_calls[k].outcome.result > conv_calls[l].outcome.result

\* 0.5 nM, then 1000 nM
C14_Witness ==
    /\ Len(conv_calls) = 2
    /\ conv_calls[1].ic50 = PyFloat(5, -1)
    /\ conv_calls[2].ic50 = PyInt(1000)
    /\ NanomolarCalls = {1, 2}
    /\ conv_calls[2].outcome.result = 600

IsValueError(outcome) ==
    outcome.raised /\ outcome.msg = "IC50 value must be a positive number."

IsUnitError(outcome) ==
    /\ outcome.raised
    /\ outcome.msg /= "IC50 value must be a positive number."
    /\ SubSeq(outcome.msg, 1, 13) = "Invalid unit "

\* C15: ic50_to_pic50 fails with an invalid-input error, and returns no
\* value, for every ic50 that is zero, negative or not a number, and for every
\* unit outside nM, µM, mM, M; when both are invalid the error is the one
\* about the IC50 value.
C15_InvalidInputRejected ==
    \A k \in 1..Len(conv_calls) :
        LET call == conv_calls[k]
        IN /\ ~Positive(call.ic50) => IsValueError(call.outcome)
           /\ (Positive(call.ic50) /\ call.unit \notin {"nM", "µM", "mM", "M"})
                  => call.outcome.raised /\ ~IsValueError(call.outcome)
           /\ call.outcome.raised => "result" \notin DOMAIN call.outcome

\* A call with a bad value and a bad unit, and one with a bad unit only
C15_Witness ==
    /\ Len(conv_calls) = 2
    /\ conv_calls[1].ic50 = PyStr("invalid")
    /\ conv_calls[1].unit = "ppm"
    /\ conv_calls[2].ic50 = PyInt(1000)
    /\ conv_calls[2].unit = "ppm"
    /\ conv_calls[2].outcome.raised

\* ------------------------------------------------------------------------
\* caddkit/fingerprints.py: the fingerprint functions
\* ------------------------------------------------------------------------
\* A numpy vector: its length and the positions that are not zero
Vector(length, nonzero) == [length |-> length, nonzero |-> nonzero]

\* np.zeros(n)
Zeros(n) == Vector(n, {})

\* The positions RDKit sets for a molecule in a fingerprint of the given size
\* (a fixed function of the molecule, the kind of fingerprint and the size)
RdkitOnBits(mol, kind, size) ==
    {(mol.HeavyAtomCount * 7 + kind) % size, (mol.ExactMolWt + kind) % size}

\* A fingerprint function with the keyword argument the caller fixed for it
\* (size 0: the function's default)
Fn(name, size) == [name |-> name, size |-> size]

calculate_morgan_fingerprint_as_bit_vect(smiles, nBits) ==
    LET mol == MolFromSmiles(smiles)
    IN IF mol /= None THEN Vector(nBits, RdkitOnBits(mol[1], 1, nBits))
       ELSE Zeros(nBits)

calculate_ap_fingerprint_as_bit_vect(smiles) ==
    LET mol == MolFromSmiles(smiles)
    IN IF mol /= None THEN Vector(2048, RdkitOnBits(mol[1], 2, 2048))
       ELSE Zeros(2048)

calculate_rdk5_fingerprint_as_bit_vect(smiles) ==
    LET mol == MolFromSmiles(smiles)
    IN IF mol /= None THEN Vector(2048, RdkitOnBits(mol[1], 3, 2048))
       ELSE Zeros(2048)

calculate_maccs_fingerprint_as_bit_vect(smiles) ==
    LET mol == MolFromSmiles(smiles)
    IN IF mol /= None THEN Vector(167, RdkitOnBits(mol[1], 4, 167))
       ELSE Zeros(167)

calculate_morgan2_fingerprint_as_bit_vect(smiles, n_bits) ==
    LET mol == MolFromSmiles(smiles)
    IN IF mol /= None THEN Vector(n_bits, RdkitOnBits(mol[1], 5, n_bits))
       ELSE Zeros(2048)

calculate_morgan3_fingerprint_as_bit_vect(smiles, n_bits) ==
    LET mol == MolFromSmiles(smiles)
    IN IF mol /= None THEN Vector(n_bits, RdkitOnBits(mol[1], 6, n_bits))
       ELSE Zeros(2048)

\* fingerprint_fn(smiles)
CallFingerprint(fn, smiles) ==
    CASE fn.name = "calculate_morgan_fingerprint_as_bit_vect" ->
           calculate_morgan_fingerprint_as_bit_vect(
               smiles, IF fn.size = 0 THEN 1024 ELSE fn.size)
      [] fn.name = "calculate_ap_fingerprint_as_bit_vect" ->
           calculate_ap_fingerprint_as_bit_vect(smiles)
      [] fn.name = "calculate_rdk5_fingerprint_as_bit_vect" ->
           calculate_rdk5_fingerprint_as_bit_vect(smiles)
      [] fn.name = "calculate_maccs_fingerprint_as_bit_vect" ->
           calculate_maccs_fingerprint_as_bit_vect(smiles)
      [] fn.name = "calculate_morgan2_fingerprint_as_bit_vect" ->
           calculate_morgan2_fingerprint_as_bit_vect(
               smiles, IF fn.size = 0 THEN 2048 ELSE fn.size)
      [] fn.name = "calculate_morgan3_fingerprint_as_bit_vect" ->
           calculate_morgan3_fingerprint_as_bit_vect(
               smiles, IF fn.size = 0 THEN 2048 ELSE fn.size)

\* The functions and arguments of the model
FingerprintFns ==
    {Fn("calculate_morgan_fingerprint_as_bit_vect", n) : n \in {0, 512, 2048}}
    \cup {Fn("calculate_morgan2_fingerprint_as_bit_vect", n) : n \in {0, 1024}}
    \cup {Fn("calculate_morgan3_fingerprint_as_bit_vect", n) : n \in {0, 1024}}
    \cup {Fn("calculate_ap_fingerprint_as_bit_vect", 0),
          Fn("calculate_rdk5_fingerprint_as_bit_vect", 0),
          Fn("calculate_maccs_fingerprint_as_bit_vect", 0)}

SmilesInputs == {Ethanol, BenzoicAcid, Unparseable}

\* A call of a fingerprint function by some caller
FingerprintCall(fn, smiles) ==
    /\ Len(fp_calls) < MaxCalls
    /\ fp_calls' = Append(fp_calls,
                          [fn |-> fn, smiles |-> smiles,
                           result |-> CallFingerprint(fn, smiles)])
    /\ UNCHANGED <<conv_calls, rule_molecule, rule_calls, id_calls, step_table,
                   step_calls, pdb_fn, rpc, attempt_log, fetch_result, fetch_raised>>
    /\ UNCHANGED <<fvars, pvars, xvars>>

InitFingerprints ==
    /\ CallsAbsent
    /\ ExportAbsent
    /\ FilterConstructed
    /\ PipelineConstructed
    /\ reg_targets = <<>>
    /\ reg_activities = <<>>
    /\ reg_molecules = <<>>

NextFingerprints ==
    \E fn \in FingerprintFns, smiles \in SmilesInputs : FingerprintCall(fn, smiles)

SpecFingerprints == InitFingerprints /\ [][NextFingerprints]_vars

\* C16: for every fingerprint function and every value of its length
\* argument, the vector returned for a string that does not parse is all zero
\* and as long as the vector the same function with the same argument returns
\* for a valid structure; so for calculate_morgan2/morgan3_fingerprint_as_bit_vect
\* with n_bits other than 2048.
C16_ZeroVectorOfSchemeLength ==
    \A k, l \in 1..Len(fp_calls) :
        (/\ fp_calls[k].fn = fp_calls[l].fn
         /\ MolFromSmiles(fp_calls[k].smiles) = None
         /\ MolFromSmiles(fp_calls[l].smiles) /= None)
            => /\ fp_calls[k].result.nonzero = {}
               /\ fp_calls[k].result.length = fp_calls[l].result.length

\* ------------------------------------------------------------------------
\* caddkit/fingerprints.py: generate_fingerprint_dfs_to_csv
\* ------------------------------------------------------------------------
MaxExportRows == 3

\* A smiles cell: a string or a missing value
SmilesCells == {Some(Ethanol), Some(Unparseable), None}

\* The input tables: an id column (the row's position) and a smiles column
ExportTable(cells) ==
    [columns |-> {"id", "smiles"},
     rows |-> [k \in 1..Len(cells) |-> [id |-> k, smiles |-> cells[k]]]]

ExportTables == {ExportTable(cells) : cells \in SeqsUpTo(SmilesCells, MaxExportRows)}

ExportFns == {Fn("calculate_maccs_fingerprint_as_bit_vect", 0),
              Fn("calculate_morgan2_fingerprint_as_bit_vect", 0)}

ChunkSizes == {0 - 1, 0, 1, 2}

\* What is at output_csv_path before the call
OldFile == Some(<<[kind |-> "old"]>>)

\* The namespace of the module: as the file binds it, or with os and tqdm
\* bound in it by the importing program
ModuleNamespaces == {ShippedGlobals \cup extra : extra \in SUBSET {"os", "tqdm"}}

\* fingerprint_fn(smiles) inside the try: RDKit rejects a missing value
FingerprintOutcome(fn, cell) ==
    IF cell = None THEN Raise("ArgumentError")
    ELSE Return(CallFingerprint(fn, cell[1]))

\* fingerprints.append([None])
Placeholder == [length |-> 1, nonzero |-> {}, none |-> TRUE]

\* The loop over chunk[smiles_col]: one entry per row, the placeholder for a
\* row whose encoding raised
RECURSIVE EncodeChunk(_, _, _)
EncodeChunk(fn, chunk, column) ==
    IF chunk = <<>> THEN <<>>
    ELSE LET outcome == FingerprintOutcome(fn, Head(chunk)[column])
         IN <<IF outcome.raised THEN Placeholder ELSE outcome.result>>
            \o EncodeChunk(fn, Tail(chunk), column)

\* pd.DataFrame(fingerprints).shape[1]: the longest entry
RECURSIVE FrameWidth(_)
FrameWidth(fingerprints) ==
    IF fingerprints = <<>> THEN 0
    ELSE LET rest == FrameWidth(Tail(fingerprints))
         IN IF Head(fingerprints).length > rest THEN Head(fingerprints).length ELSE rest

\* pd.concat([chunk.reset_index(drop=True), fingerprint_df], axis=1) as csv
\* lines: a row of the result for every index of either frame
ResultLines(chunk, fingerprints) ==
    LET n == IF Len(chunk) > Len(fingerprints) THEN Len(chunk) ELSE Len(fingerprints)
    IN [k \in 1..n |->
           [kind |-> "row",
            row |-> IF k <= Len(chunk) THEN Some(chunk[k]) ELSE None,
            fingerprint |-> IF k <= Len(fingerprints) THEN Some(fingerprints[k]) ELSE None,
            width |-> FrameWidth(fingerprints)]]

HeaderLine(columns, width) == [kind |-> "header", columns |-> columns, width |-> width]

\* X_df.iloc[start:start + size]
ILoc(rows, start, size) ==
    SubSeq(rows, start + 1, IF start + size > Len(rows) THEN Len(rows) ELSE start + size)

\* range(0, total_rows, chunk_size) still has the value start
InRange(start, total_rows, step) == step > 0 /\ start < total_rows

ExportRaise(msg) ==
    /\ export_raised' = msg
    /\ xpc' = "done"

\* Mutant: the call goes on to prepare the file without the check of smiles_col
ExportCallUnchecked(table, fn, column, size) ==
    /\ xpc = "idle"
    /\ X_df' = table
    /\ fingerprint_fn' = fn
    /\ smiles_col' = column
    /\ chunk_size' = size
    /\ sink_before' = sink
    /\ xpc' = "prepare"
    /\ UNCHANGED export_raised
    /\ UNCHANGED <<module_globals, sink, start_idx, removals, header_writes, commits>>
    /\ UNCHANGED <<fvars, pvars, cvars>>

\* The call, and the check of smiles_col
ExportCall(table, fn, column, size) ==
    /\ xpc = "idle"
    /\ X_df' = table
    /\ fingerprint_fn' = fn
    /\ smiles_col' = column
    /\ chunk_size' = size
    /\ sink_before' = sink
    /\ IF column \notin table.columns
       THEN ExportRaise("ValueError: Input DataFrame must contain a '"
                            \o column \o "' column.")
       ELSE xpc' = "prepare" /\ UNCHANGED export_raised
    /\ UNCHANGED <<module_globals, sink, start_idx, removals, header_writes, commits>>
    /\ UNCHANGED <<fvars, pvars, cvars>>

\* if os.path.exists(output_csv_path): os.remove(output_csv_path)
ExportPrepare ==
    /\ xpc = "prepare"
    /\ IF "os" \notin module_globals
       THEN /\ ExportRaise("NameError: name 'os' is not defined")
            /\ UNCHANGED <<sink, removals>>
       ELSE /\ xpc' = "enter"
            /\ sink' = None
            /\ removals' = IF sink /= None THEN removals + 1 ELSE removals
            /\ UNCHANGED export_raised
    /\ UNCHANGED <<module_globals, X_df, fingerprint_fn, smiles_col, chunk_size,
                   start_idx, sink_before, header_writes, commits>>
    /\ UNCHANGED <<fvars, pvars, cvars>>

\* with tqdm(...) as pbar: for start_idx in range(0, total_rows, chunk_size)
ExportEnter ==
    /\ xpc = "enter"
    /\ IF "tqdm" \notin module_globals
       THEN ExportRaise("NameError: name 'tqdm' is not defined")
       ELSE IF chunk_size = 0
       THEN ExportRaise("ValueError: range() arg 3 must not be zero")
       ELSE xpc' = "loop" /\ UNCHANGED export_raised
    /\ start_idx' = 0
    /\ UNCHANGED <<module_globals, sink, X_df, fingerprint_fn, smiles_col, chunk_size,
                   sink_before, removals, header_writes, commits>>
    /\ UNCHANGED <<fvars, pvars, cvars>>

\* One pass of the loop: encode the chunk and append it to the file
ExportChunk ==
    /\ xpc = "loop"
    /\ InRange(start_idx, Len(X_df.rows), chunk_size)
    /\ LET chunk == ILoc(X_df.rows, start_idx, chunk_size)
           fingerprints == EncodeChunk(fingerprint_fn, chunk, smiles_col)
           lines == ResultLines(chunk, fingerprints)
           header == sink = None
       IN /\ sink' = Some((IF sink = None THEN <<>> ELSE sink[1])
                          \o (IF header
                              THEN <<HeaderLine(X_df.columns, FrameWidth(fingerprints))>>
                              ELSE <<>>)
                          \o lines)
          /\ header_writes' = IF header THEN header_writes + 1 ELSE header_writes
          /\ commits' = Append(commits, lines)
    /\ start_idx' = start_idx + chunk_size
    /\ UNCHANGED <<module_globals, X_df, fingerprint_fn, smiles_col, chunk_size, xpc,
                   export_raised, sink_before, removals>>
    /\ UNCHANGED <<fvars, pvars, cvars>>

\* The range is exhausted: the function returns None
ExportFinish ==
    /\ xpc = "loop"
    /\ ~InRange(start_idx, Len(X_df.rows), chunk_size)
    /\ xpc' = "done"
    /\ UNCHANGED <<module_globals, sink, X_df, fingerprint_fn, smiles_col, chunk_size,
                   start_idx, export_raised, sink_before, removals, header_writes,
                   commits>>
    /\ UNCHANGED <<fvars, pvars, cvars>>

InitExport ==
    /\ CallsAbsent
    /\ FilterConstructed
    /\ PipelineConstructed
    /\ reg_targets = <<>>
    /\ reg_activities = <<>>
    /\ reg_molecules = <<>>
    /\ module_globals \in ModuleNamespaces
    /\ sink \in {None, OldFile}
    /\ ExportLocalsFresh

NextExport ==
    \/ \E table \in ExportTables, fn \in ExportFns, column \in {"smiles", "SMILES"},
          size \in ChunkSizes : ExportCall(table, fn, column, size)
    \/ ExportPrepare
    \/ ExportEnter
    \/ ExportChunk
    \/ ExportFinish

SpecExport == InitExport /\ [][NextExport]_vars

\* ------------------------------------------------------------------------
\* generate_fingerprint_dfs_to_csv: what the properties speak about
\* ------------------------------------------------------------------------
\* The call passed the check of smiles_col
ColumnFound == xpc /= "idle" /\ smiles_col \in X_df.columns

SinkLines == IF sink = None THEN <<>> ELSE sink[1]

\* The data rows of the file, in order
SinkRows == SelectSeq(SinkLines, LAMBDA line : line.kind = "row")

\* The input rows the data rows of the file are
SinkInputRows == [k \in 1..Len(SinkRows) |-> SinkRows[k].row]

FirstInputRows(n) ==
    [k \in 1..(IF n < Len(X_df.rows) THEN n ELSE Len(X_df.rows)) |-> Some(X_df.rows[k])]

RECURSIVE Flatten(_)
Flatten(seqs) == IF seqs = <<>> THEN <<>> ELSE Head(seqs) \o Flatten(Tail(seqs))

\* C17: the export keeps the input order within and across chunks: after the
\* k-th chunk is committed the file holds exactly the first
\* min(k * chunk_size, N) input rows, each once and in input order; when the
\* run has finished every input row is in the file exactly once.
C17_OrderPreservedAcrossChunks ==
    (ColumnFound /\ chunk_size > 0) =>
        /\ commits /= <<>> =>
               SinkInputRows = FirstInputRows(Len(commits) * chunk_size)
        /\ xpc = "done" =>
               /\ export_raised = ""
               /\ SinkInputRows = FirstInputRows(Len(X_df.rows))

\* C18: in every run (any number of input rows, with or without a file at
\* the path) a file that was there is discarded and replaced on the first
\* chunk, later chunks only append, and the header row is written exactly
\* once.
C18_SinkReplacedHeaderOnce ==
    (ColumnFound /\ xpc = "done") =>
        /\ header_writes = 1
        /\ SinkLines /= <<>>
        /\ Head(SinkLines).kind = "header"
        /\ Tail(SinkLines) = Flatten(commits)

\* C19: when the encoding of a row of a chunk raises, the error is caught,
\* the row's encoding is the one-element placeholder, the other rows of the
\* chunk are encoded, and the chunk is written with one output row per input
\* row.
C19_RowFailureKeepsChunk ==
    (/\ ColumnFound
     /\ chunk_size > 0
     /\ xpc = "done"
     /\ \E i \in 1..Len(X_df.rows) :
            FingerprintOutcome(fingerprint_fn, X_df.rows[i][smiles_col]).raised) =>
        /\ export_raised = ""
        /\ Len(SinkRows) = Len(X_df.rows)
        /\ \A i \in 1..Len(X_df.rows) :
               LET outcome == FingerprintOutcome(fingerprint_fn, X_df.rows[i][smiles_col])
               IN /\ SinkRows[i].row = Some(X_df.rows[i])
                  /\ SinkRows[i].fingerprint
                         = Some(IF outcome.raised THEN Placeholder ELSE outcome.result)

\* C20: a chunk size of zero or less is rejected at once with a validation
\* error, before a file at the path is removed or a row is processed.
C20_NonPositiveChunkRejected ==
    (xpc = "done" /\ chunk_size <= 0) =>
        /\ Len(export_raised) >= 10
        /\ SubSeq(export_raised, 1, 10) = "ValueError"
        /\ sink = sink_before
        /\ removals = 0
        /\ commits = <<>>

\* ------------------------------------------------------------------------
\* The three transformation steps called on their own: a caller holds one
\* table and calls step methods on it, one call after the other
\* ------------------------------------------------------------------------
RawBioactivities ==
    {FromRecords(BioColumns, a) : a \in SeqsUpTo(ActivityRecords, MaxActivities)}

RawCompounds ==
    {FromRecords({"molecule_chembl_id", "molecule_structures"}, m) :
        m \in SeqsUpTo(MoleculeRecords, MaxMolecules)}

MergedTables ==
    {merge_data(b, c).result : b \in CleanedBioactivities, c \in NormalizedCompounds}

StepMethods == {"process_bioactivity_data", "process_compound_data",
                "convert_ic50_to_pic50"}

\* pipeline.<method>(step_table)
StepCall(method) ==
    /\ Len(step_calls) < MaxCalls
    /\ LET outcome == StepMethod(method, step_table)
       IN /\ step_calls' = Append(step_calls,
                                  [method |-> method, before |-> step_table,
                                   outcome |-> outcome])
          /\ step_table' = TableAfter(method, step_table, outcome)
    /\ UNCHANGED <<conv_calls, fp_calls, rule_molecule, rule_calls, id_calls,
                   pdb_fn, rpc, attempt_log, fetch_result, fetch_raised>>
    /\ UNCHANGED <<fvars, pvars, xvars>>

InitSteps ==
    /\ conv_calls = <<>>
    /\ fp_calls = <<>>
    /\ rule_molecule = None
    /\ rule_calls = <<>>
    /\ id_calls = <<>>
    /\ step_table \in RawBioactivities \cup RawCompounds \cup MergedTables
    /\ step_calls = <<>>
    /\ pdb_fn = ""
    /\ rpc = "idle"
    /\ attempt_log = <<>>
    /\ fetch_result = None
    /\ fetch_raised = ""
    /\ ExportAbsent
    /\ FilterConstructed
    /\ PipelineConstructed
    /\ reg_targets = <<>>
    /\ reg_activities = <<>>
    /\ reg_molecules = <<>>

NextSteps == \E method \in StepMethods : StepCall(method)

SpecSteps == InitSteps /\ [][NextSteps]_vars

\* The caller's table as call k left it
StepTableAfter(k) ==
    IF k < Len(step_calls) THEN step_calls[k + 1].before ELSE step_table

\* What a call gave its caller: the exception, or the returned table
Given(outcome) ==
    IF outcome.raised THEN [raised |-> TRUE, msg |-> outcome.msg]
    ELSE [raised |-> FALSE, result |-> outcome.result]

\* C21: the bioactivity cleaner, the structure normalizer and the
\* potency-conversion step are pure: a call of process_bioactivity_data,
\* process_compound_data or convert_ic50_to_pic50 leaves the caller's table as
\* it was, and two calls of the same step on the same input table give the
\* same result.
C21_StepsArePure ==
    /\ \A k \in 1..Len(step_calls) : StepTableAfter(k) = step_calls[k].before
    /\ \A j, k \in 1..Len(step_calls) :
           step_calls[j].method = step_calls[k].method
               => Given(step_calls[j].outcome) = Given(step_calls[k].outcome)

\* ------------------------------------------------------------------------
\* Successive calls of run on one instance, by a caller who keeps every
\* returned table; the registry is the same for all of them
\* ------------------------------------------------------------------------
MaxRunRecords == 1

RunRegistries ==
    /\ reg_targets \in {<<>>, <<TargetId>>}
    /\ reg_activities \in IF reg_targets = <<>> THEN {<<>>}
                          ELSE SeqsUpTo(ActivityRecords, MaxRunRecords)
    /\ reg_molecules \in SeqsUpTo(MoleculeRecords, MaxRunRecords)

InitRuns ==
    /\ CallsAbsent
    /\ ExportAbsent
    /\ FilterConstructed
    /\ PipelineConstructed
    /\ RunRegistries

NextRuns ==
    \/ RunStart
    \/ Stage1
    \/ Stage2
    \/ Stage3
    \/ Stage4
    \/ Stage5
    \/ Stage6
    \/ Stage7
    \/ RunExcept
    \/ RunReturnKept

SpecRuns == InitRuns /\ [][NextRuns]_vars

\* C22: a DataRequestPipeline instance carries no state across calls of run:
\* against an unchanged registry all successive run calls on the instance
\* return the same table, and no call changes the instance's field
\* (uniprot_id keeps the value the constructor gave it).
C22_RunsAreIndependent ==
    /\ \A j, k \in 1..Len(run_returns) : run_returns[j] = run_returns[k]
    /\ (ppc = "done" /\ run_returns /= <<>>) => run_result = run_returns[1]
    /\ uniprot_id = UniprotId

\* Two runs have returned, each the same table of one row or more
C22_Witness ==
    /\ Len(run_returns) = MaxRuns
    /\ run_returns[1].rows /= <<>>
    /\ run_returns[MaxRuns] = run_returns[1]

\* ------------------------------------------------------------------------
\* The two rule functions on any molecule: a caller holds a parsed molecule,
\* given by the descriptors RDKit computes for it, and calls the functions
\* ------------------------------------------------------------------------
Weights == {9999, 10000, 50000, 50001, 70000, 70001}
Acceptors == {0, 10, 11}
Donors == {0, 5, 6}
LogPs == {-500, -499, 500, 501, 749, 750}
HeavyAtoms == {4, 5, 50, 51}
RotatableBonds == {0, 12, 13}

Molecules ==
    [ExactMolWt : Weights, NumHAcceptors : Acceptors, NumHDonors : Donors,
     MolLogP : LogPs, HeavyAtomCount : HeavyAtoms, NumRotatableBonds : RotatableBonds]
    \cup {RdkitDescriptors[s] : s \in DOMAIN RdkitDescriptors}

\* fn(smiles), past Chem.MolFromSmiles
CallRule(fn, molecule) ==
    CASE fn = "calculate_ro5_properties" -> Return(ro5_properties(molecule))
      [] fn = "calculate_soft_reos_properties" -> Return(soft_reos_properties(molecule))

RuleCall(fn) ==
    /\ Len(rule_calls) < MaxCalls
    /\ rule_calls' = Append(rule_calls,
                            [fn |-> fn, outcome |-> CallRule(fn, rule_molecule[1])])
    /\ UNCHANGED <<conv_calls, fp_calls, rule_molecule, id_calls, step_table,
                   step_calls, pdb_fn, rpc, attempt_log, fetch_result, fetch_raised>>
    /\ UNCHANGED <<fvars, pvars, xvars>>

InitRules ==
    /\ conv_calls = <<>>
    /\ fp_calls = <<>>
    /\ rule_molecule \in {Some(m) : m \in Molecules}
    /\ rule_calls = <<>>
    /\ id_calls = <<>>
    /\ step_table = EmptyTable
    /\ step_calls = <<>>
    /\ pdb_fn = ""
    /\ rpc = "idle"
    /\ attempt_log = <<>>
    /\ fetch_result = None
    /\ fetch_raised = ""
    /\ ExportAbsent
    /\ FilterConstructed
    /\ PipelineConstructed
    /\ reg_targets = <<>>
    /\ reg_activities = <<>>
    /\ reg_molecules = <<>>

NextRules == \E fn \in BuiltinPredicates : RuleCall(fn)

SpecRules == InitRules /\ [][NextRules]_vars

\* The Rule-of-Five conditions that hold for molecule m
Ro5Holding(m) ==
    {c \in {"weight", "acceptors", "donors", "logp"} :
        CASE c = "weight" -> m.ExactMolWt <= 50000
          [] c = "acceptors" -> m.NumHAcceptors <= 10
          [] c = "donors" -> m.NumHDonors <= 5
          [] c = "logp" -> m.MolLogP <= 500}

RuleCallsOf(fn) == {k \in 1..Len(rule_calls) : rule_calls[k].fn = fn}

\* C23: calculate_ro5_properties returns fulfilled = true if and only if at
\* least 3 of the 4 conditions weight <= 500, acceptors <= 10, donors <= 5,
\* logP <= 5 hold for the molecule's descriptors, each bound inclusive.
C23_Ro5ThreeOfFour ==
    \A k \in RuleCallsOf("calculate_ro5_properties") :
        /\ ~rule_calls[k].outcome.raised
        /\ rule_calls[k].outcome.result.fulfilled
               <=> Cardinality(Ro5Holding(rule_molecule[1])) >= 3

\* Fulfilled with exactly three conditions holding, two of them at their bound
C23_Witness ==
    /\ RuleCallsOf("calculate_ro5_properties") /= {}
    /\ rule_molecule[1].ExactMolWt = 50000
    /\ rule_molecule[1].NumHAcceptors = 10
    /\ rule_molecule[1].NumHDonors = 6
    /\ rule_molecule[1].MolLogP = 500
    /\ \A k \in RuleCallsOf("calculate_ro5_properties") :
           rule_calls[k].outcome.result.fulfilled

\* All six Soft REOS bounds hold for molecule m
ReosBounds(m) ==
    /\ 10000 <= m.ExactMolWt /\ m.ExactMolWt <= 70000
    /\ 5 <= m.HeavyAtomCount /\ m.HeavyAtomCount <= 50
    /\ 0 <= m.NumRotatableBonds /\ m.NumRotatableBonds <= 12
    /\ 0 <= m.NumHDonors /\ m.NumHDonors <= 5
    /\ 0 <= m.NumHAcceptors /\ m.NumHAcceptors <= 10
    /\ -500 < m.MolLogP /\ m.MolLogP < 750

\* C24: calculate_soft_reos_properties returns fulfilled = true if and only
\* if all six bounds hold (100 <= weight <= 700, 5 <= heavy atoms <= 50,
\* 0 <= rotatable bonds <= 12, 0 <= donors <= 5, 0 <= acceptors <= 10,
\* -5 < logP < 7.5, the logP bounds strict); so for a molecule lighter than
\* 100 whose other descriptors satisfy Rule-of-Five, Soft REOS is false and
\* Rule-of-Five is true.
C24_SoftReosAllSix ==
    /\ \A k \in RuleCallsOf("calculate_soft_reos_properties") :
           /\ ~rule_calls[k].outcome.raised
           /\ rule_calls[k].outcome.result.fulfilled <=> ReosBounds(rule_molecule[1])
    /\ (/\ rule_molecule[1].ExactMolWt < 10000
        /\ {"acceptors", "donors", "logp"} \subseteq Ro5Holding(rule_molecule[1]))
           => /\ \A k \in RuleCallsOf("calculate_soft_reos_properties") :
                     ~rule_calls[k].outcome.result.fulfilled
              /\ \A k \in RuleCallsOf("calculate_ro5_properties") :
                     rule_calls[k].outcome.result.fulfilled

\* Ethanol (weight 46.04): both functions called, Soft REOS false and
\* Rule-of-Five true
C24_Witness ==
    /\ rule_molecule = Some(RdkitDescriptors[Ethanol])
    /\ \E j, k \in 1..Len(rule_calls) :
           /\ rule_calls[j].fn = "calculate_soft_reos_properties"
           /\ ~rule_calls[j].outcome.result.fulfilled
           /\ rule_calls[k].fn = "calculate_ro5_properties"
           /\ rule_calls[k].outcome.result.fulfilled

\* ------------------------------------------------------------------------
\* DataRequestPipeline.run: the order of the stages
\* ------------------------------------------------------------------------
\* The compounds of the cleaner's input rows that the cleaner keeps
SurvivingCompounds ==
    {CleanerInput.rows[i].molecule_chembl_id :
        i \in {j \in 1..Len(CleanerInput.rows) : Retained(CleanerInput.rows[j])}}

\* The stages run has started are the first stages, in their order, and none
\* was started after one that raised
CalledInOrder ==
    /\ Len(calls) <= Len(StageMethods)
    /\ \A k \in 1..Len(calls) : calls[k] = StageMethods[k]
    /\ failed_stage /= 0 => Len(calls) = failed_stage

\* Structure retrieval was asked for the distinct surviving compounds
RequestedSurvivors ==
    Len(calls) >= 4 =>
        /\ Cardinality(Range(requested_ids)) = Len(requested_ids)
        /\ Range(requested_ids) = SurvivingCompounds

\* C25: run executes its stages strictly in the order resolve, retrieve
\* bioactivity, clean, retrieve structures, normalize, merge, convert; a stage
\* starts only after the previous stage has succeeded (bioactivity retrieval
\* only after a target has been resolved), and structure retrieval is
\* requested for exactly the distinct compound ids that survived cleaning.
C25_StagesInOrder ==
    /\ CalledInOrder
    /\ Len(calls) >= 2 => chembl_id /= None
    /\ RequestedSurvivors

\* ------------------------------------------------------------------------
\* CompoundFilter: the registry of predicates
\* ------------------------------------------------------------------------
\* A step that changes the registry appends one accepted (callable, name)
\* pair at the end of both lists
RegistryAppends ==
    (filters' /= filters \/ filter_names' /= filter_names) =>
        \E choice \in FilterChoices :
            /\ choice[1] /= None
            /\ choice[2] /= None
            /\ filters' = Append(filters, choice[1][1])
            /\ filter_names' = Append(filter_names, choice[2][1])

\* A step in which add_filter raises leaves both lists as they were
RejectedKeepsRegistry ==
    (add_raised' /= "" /\ add_raised' /= add_raised) =>
        /\ filters' = filters
        /\ filter_names' = filter_names

\* The calls process has made: for each row the predicates from the first
\* registered on, one after the other
EvaluatedInRegistrationOrder ==
    \A k \in 1..Len(evaluated) :
        evaluated[k][2] = IF k > 1 /\ evaluated[k - 1][1] = evaluated[k][1]
                          THEN evaluated[k - 1][2] + 1
                          ELSE 1

\* Every predicate of the registry, whatever its name, has been called on a
\* finished row, but for those after a predicate that raised on the row
AllRegisteredEvaluated ==
    \A i \in RowIndexes, j \in FilterIndexes :
        Finished(i) => (WasEvaluated(i, j) <=> \A m \in 1..(j - 1) : ~Raises(i, m))

RegistryInvariant ==
    /\ Len(filters) = Len(filter_names)
    /\ EvaluatedInRegistrationOrder
    /\ AllRegisteredEvaluated

\* C26: add_filter appends the predicate at the end of the registry, and
\* process evaluates the predicates for each compound in registration order;
\* two predicates registered under the same name are both kept and both
\* evaluated; a rejected add_filter call (predicate not callable, or name not
\* a string) leaves the registry unchanged; and the list of predicates and
\* the list of names always have the same length.
C26_RegistrationOrder ==
    [][RegistryAppends /\ RejectedKeepsRegistry /\ RegistryInvariant']_vars

\* Two different predicates under one name, both called on a finished row
C26_Witness ==
    /\ Len(filters) = 2
    /\ filters[1] /= filters[2]
    /\ filter_names[1] = filter_names[2]
    /\ Finished(1)
    /\ WasEvaluated(1, 1)
    /\ WasEvaluated(1, 2)

\* ------------------------------------------------------------------------
\* caddkit/api/pdb.py fetch_pdb_metadata and caddkit/pdb.py
\* describe_one_pdb_id: one body, decorated with
\* @redo.retriable(attempts=10, sleeptime=2).  redo.retry calls the function
\* up to attempts times: it returns what the first call that does not raise
\* returns, and re-raises the exception of the last call when the attempts
\* are used up.
\* ------------------------------------------------------------------------
RetryAttempts == 10

RetriedFunctions == {"fetch_pdb_metadata", "describe_one_pdb_id"}

\* What pypdb.describe_pdb does in one attempt: it returns the metadata, it
\* returns None, or it raises
DescribeAnswers == {"metadata", "None", "error"}

\* The body of the decorated function, for one answer of pypdb.describe_pdb
DescribeBody(answer) ==
    CASE answer = "metadata" -> Return("metadata")
      [] answer = "None" -> Raise("ValueError")
      [] answer = "error" -> Raise("RequestException")

\* Mutant: one more attempt is made before giving up
GivesUpOneLate(n, attempts) == n = attempts + 1

\* redo.retry: after a failed attempt number n, give up
GivesUp(n, attempts) == n = attempts

\* fetch_pdb_metadata(pdb_id) / describe_one_pdb_id(pdb_id) is called
FetchCall(fn) ==
    /\ rpc = "idle"
    /\ rpc' = "attempt"
    /\ pdb_fn' = fn
    /\ attempt_log' = <<>>
    /\ fetch_result' = None
    /\ fetch_raised' = ""
    /\ UNCHANGED <<conv_calls, fp_calls, rule_molecule, rule_calls, id_calls,
                   step_table, step_calls>>
    /\ UNCHANGED <<fvars, pvars, xvars>>

\* One attempt of redo.retry: the body is called once
FetchAttempt(answer) ==
    /\ rpc = "attempt"
    /\ LET outcome == DescribeBody(answer)
           n == Len(attempt_log) + 1
       IN /\ attempt_log' = Append(attempt_log, answer)
          /\ IF ~outcome.raised
             THEN /\ fetch_result' = Some(outcome.result)
                  /\ rpc' = "done"
                  /\ UNCHANGED fetch_raised
             ELSE IF GivesUp(n, RetryAttempts)
             THEN /\ fetch_raised' = outcome.msg
                  /\ rpc' = "done"
                  /\ UNCHANGED fetch_result
             ELSE UNCHANGED <<rpc, fetch_result, fetch_raised>>
    /\ UNCHANGED <<conv_calls, fp_calls, rule_molecule, rule_calls, id_calls,
                   step_table, step_calls, pdb_fn>>
    /\ UNCHANGED <<fvars, pvars, xvars>>

InitFetch ==
    /\ CallsAbsent
    /\ ExportAbsent
    /\ FilterConstructed
    /\ PipelineConstructed
    /\ reg_targets = <<>>
    /\ reg_activities = <<>>
    /\ reg_molecules = <<>>

NextFetch ==
    \/ \E fn \in RetriedFunctions : FetchCall(fn)
    \/ \E answer \in DescribeAnswers : FetchAttempt(answer)

SpecFetch == InitFetch /\ [][NextFetch]_vars

Failed(k) == attempt_log[k] /= "metadata"

\* C27: the retried metadata fetch (fetch_pdb_metadata, describe_one_pdb_id)
\* makes at most 10 attempts per identifier; it returns the result of the
\* first attempt that succeeds and makes no attempt after it; when all 10
\* attempts have failed it raises to its caller and tries no more.
C27_BoundedRetry ==
    /\ Len(attempt_log) <= RetryAttempts
    /\ \A k \in 1..(Len(attempt_log) - 1) : Failed(k)
    /\ rpc = "attempt" =>
           /\ Len(attempt_log) < RetryAttempts
           /\ \A k \in 1..Len(attempt_log) : Failed(k)
    /\ rpc = "done" =>
           IF Failed(Len(attempt_log))
           THEN /\ Len(attempt_log) = RetryAttempts
                /\ fetch_raised /= ""
                /\ fetch_result = None
           ELSE /\ fetch_raised = ""
                /\ fetch_result = Some("metadata")

\* All ten attempts failed and the call has raised
C27_Witness ==
    /\ rpc = "done"
    /\ Len(attempt_log) = RetryAttempts
    /\ Failed(RetryAttempts)
    /\ fetch_raised = "ValueError"

\* ------------------------------------------------------------------------
\* process_compound_data: what the properties speak about
\* ------------------------------------------------------------------------
\* The calls of the normalizer on a table of structure records, one or more
NormalizerCalls ==
    {k \in 1..Len(step_calls) :
        /\ step_calls[k].method = "process_compound_data"
        /\ step_calls[k].before.columns = {"molecule_chembl_id", "molecule_structures"}
        /\ step_calls[k].before.rows /= <<>>}

HasBlob(r) == r.molecule_structures /= None

LacksKey(r) ==
    /\ HasBlob(r)
    /\ "canonical_smiles" \notin DOMAIN r.molecule_structures[1]

\* The structure string of a record, absent when there is none to extract
Extracted(r) ==
    IF HasBlob(r) /\ ~LacksKey(r)
    THEN Some(r.molecule_structures[1].canonical_smiles)
    ELSE None

\* Record i is the first of its compound among all records
FirstOccurrence(records, i) ==
    \A m \in 1..(i - 1) : records[m].molecule_chembl_id /= records[i].molecule_chembl_id

\* Record i has a blob and is the first of its compound among those that have
FirstWithBlob(records, i) ==
    /\ HasBlob(records[i])
    /\ \A m \in 1..(i - 1) :
           HasBlob(records[m])
               => records[m].molecule_chembl_id /= records[i].molecule_chembl_id

\* The output row of the compound of record i carries what record i gives
RowFrom(out, r) ==
    \E o \in 1..Len(out) :
        /\ out[o].molecule_chembl_id = r.molecule_chembl_id
        /\ out[o].smiles = Extracted(r)

\* C28 as stated: in process_compound_data a record whose structure blob
\* lacks the canonical_smiles key does not abort the batch, its structure is
\* recorded as absent and every other record's structure is still extracted;
\* the output has at most one row per compound, the first occurrence of the
\* compound among the input records.
C28_FirstOfInputRecords ==
    \A k \in NormalizerCalls :
        LET records == step_calls[k].before.rows
            outcome == step_calls[k].outcome
        IN /\ ~outcome.raised
           /\ UniqueCompounds(outcome.result.rows)
           /\ \A o \in 1..Len(outcome.result.rows) :
                  \E i \in 1..Len(records) :
                      /\ FirstOccurrence(records, i)
                      /\ records[i].molecule_chembl_id
                             = outcome.result.rows[o].molecule_chembl_id
                      /\ outcome.result.rows[o].smiles = Extracted(records[i])
           /\ \A i \in 1..Len(records) :
                  (HasBlob(records[i]) /\ FirstOccurrence(records, i))
                      => RowFrom(outcome.result.rows, records[i])

\* C28: in process_compound_data a record whose structure blob lacks the
\* canonical_smiles key does not abort the batch, its structure is recorded
\* as absent and every other record's structure is still extracted; the
\* output has at most one row per compound, the first occurrence of the
\* compound among the records that have a structure blob (a record with no
\* blob at all is dropped before the duplicates are).
C28_FirstOfRecordsWithBlob ==
    \A k \in NormalizerCalls :
        LET records == step_calls[k].before.rows
            outcome == step_calls[k].outcome
        IN /\ ~outcome.raised
           /\ UniqueCompounds(outcome.result.rows)
           /\ \A o \in 1..Len(outcome.result.rows) :
                  \E i \in 1..Len(records) :
                      /\ FirstWithBlob(records, i)
                      /\ records[i].molecule_chembl_id
                             = outcome.result.rows[o].molecule_chembl_id
                      /\ outcome.result.rows[o].smiles = Extracted(records[i])
           /\ \A i \in 1..Len(records) :
                  FirstWithBlob(records, i) => RowFrom(outcome.result.rows, records[i])

\* A batch of a record without the key and a record with it: two output
\* rows, one with an absent structure and one with the extracted string
C28_Witness ==
    \E k \in NormalizerCalls :
        LET records == step_calls[k].before.rows
            out == step_calls[k].outcome.result.rows
        IN /\ ~step_calls[k].outcome.raised
           /\ Len(records) = 2
           /\ LacksKey(records[1])
           /\ Extracted(records[2]) /= None
           /\ Len(out) = 2
           /\ out[1].smiles = None
           /\ out[2].smiles = Extracted(records[2])

\* ------------------------------------------------------------------------
\* get_chembl_id_by_uniprot called on its own, against a registry that has
\* none, one or several targets for the UniProt ID
\* ------------------------------------------------------------------------
MaxTargets == 2

TargetIds == {TargetId, "CHEMBL2095216"}

\* The positional arguments of a call: (uniprot_id) or (uniprot_id, loc)
ResolveArguments ==
    {<<id>> : id \in {UniprotId, "INVALID"}}
    \cup {<<id, loc>> : id \in {UniprotId, "INVALID"},
                        loc \in (0 - MaxTargets - 1)..(MaxTargets + 1)}

\* def get_chembl_id_by_uniprot(uniprot_id, loc=0)
LocOrDefault(args) == IF Len(args) = 2 THEN args[2] ELSE 0

ResolveCall(args) ==
    /\ Len(id_calls) < MaxCalls
    /\ id_calls' = Append(id_calls,
                          [args |-> args,
                           result |-> get_chembl_id_by_uniprot(args[1],
                                                               LocOrDefault(args))])
    /\ UNCHANGED <<conv_calls, fp_calls, rule_molecule, rule_calls, step_table,
                   step_calls, pdb_fn, rpc, attempt_log, fetch_result, fetch_raised>>
    /\ UNCHANGED <<fvars, pvars, xvars>>

InitResolve ==
    /\ CallsAbsent
    /\ ExportAbsent
    /\ FilterConstructed
    /\ PipelineConstructed
    /\ reg_targets \in SeqsUpTo(TargetIds, MaxTargets)
    /\ reg_activities = <<>>
    /\ reg_molecules = <<>>

NextResolve == \E args \in ResolveArguments : ResolveCall(args)

SpecResolve == InitResolve /\ [][NextResolve]_vars

\* The registry's matches for an identifier, in the registry's order
MatchesOf(id) == IF id = UniprotId THEN reg_targets ELSE <<>>

ColumnMissing == xpc /= "idle" /\ smiles_col \notin X_df.columns

\* C30: when generate_fingerprint_dfs_to_csv rejects its input because the
\* structure column is missing from the table, it raises (ValueError) before
\* it touches the sink: a file at the output path is still there, with the
\* content it had, and nothing has been removed or written.
C30_RejectionKeepsSink ==
    ColumnMissing =>
        /\ xpc = "done"
        /\ export_raised = "ValueError: Input DataFrame must contain a '"
                               \o smiles_col \o "' column."
        /\ sink = sink_before
        /\ removals = 0
        /\ header_writes = 0
        /\ commits = <<>>

\* A table of rows without the column named, and a file at the path
C30_Witness ==
    /\ ColumnMissing
    /\ X_df.rows /= <<>>
    /\ sink_before = OldFile
    /\ sink = OldFile
    /\ xpc = "done"

====
